---- MODULE Spec2Model ----
(***************************************************************************)
(* Model of the AI2talk bot core: the per-user session registry            *)
(* (components/user_data_manager.py), the rate limiter / violation engine  *)
(* (components/rate_limiter.py), the trusted-set cache                      *)
(* (components/settings_config.py), the owner and payment handlers and the *)
(* message dispatch of the mode handlers (handlers/*.py, app.py).          *)
(*                                                                         *)
(* Time is an integer number of seconds.  Every handler runs atomically    *)
(* and reads one value of the clock.  The persistent tables are the three  *)
(* SQLite tables of user_data_manager.py.                                  *)
(***************************************************************************)
EXTENDS Integers, Sequences, FiniteSets, TLC

VARIABLES
    now,                      \* wall clock (datetime.now(timezone.utc))
    user_data_store,          \* user_data_manager.user_data_store
    db_user_settings,         \* table user_settings
    db_blocked_users,         \* table blocked_users
    db_trusted_users,         \* table trusted_users
    trusted_users_set_cache,  \* settings._trusted_users_set_cache
    total_daily_requests_rl,  \* rate_limiter.total_daily_requests_rl
    ev,                       \* the last operation and what it returned
    payment_thread,           \* the worker running success_payment_handler
    check_thread,             \* the worker running check_rate_limits
    workers                   \* the calls the workers of the pool are inside

vars == <<now, user_data_store, db_user_settings, db_blocked_users,
          db_trusted_users, trusted_users_set_cache,
          total_daily_requests_rl, ev, payment_thread, check_thread,
          workers>>

(***************************************************************************)
(* Bounds of the model.  The windows are scaled down: a "minute", an       *)
(* "hour" and a "day" keep their order but are a few seconds long, and the *)
(* configured quotas are small positive integers.                          *)
(***************************************************************************)
MaxTime == 8
MaxTimeQuota == 7
MINUTE == 3
HOUR == 4
DAY == 8
MAX_REQUESTS_PER_DAY == 4
MAX_REQUESTS_PER_USER_PER_DAY == 3
MAX_REQUESTS_PER_MINUTE == 2
LIMIT_VIOLATIONS_BEFORE_BLOCK == 2
\* the clock of the conversation model and the scaled session lifetime
MaxTimeSM == 2
SESSION_LIFETIME == 1
\* the clock of the ban model: long enough for an escalation block to end
MaxTimeBan == 6
\* the clock of the pool model: two workers inside the same second and one
\* second apart
MaxTimePool == 1
\* the calls one worker of the pool model takes
MaxCallsPool == 1

\* Program constants.
REQUEST_COOLDOWN_SECONDS == 2
USER_BLOCK_DURATION_HOURS == 1
RATE_COOLDOWN == MINUTE
BAN_DURATION == 100 * 365 * DAY
MANUAL_BAN == -1

BOT_OWNER_USER_ID == 1
Users == {1, 2, 3}
ENV_TRUSTED_USERS == {}

DEFAULT_LANGUAGE == "en"
LANGUAGES == {"en", "ru"}
DEFAULT_GEMINI_MODEL == "gemini-2.5-flash-preview-05-20"
AVAILABLE_MODELS == {"gemini-2.5-flash-preview-05-20", "gemini-2.0-flash-lite"}

(***************************************************************************)
(* Optional[...] values: None is the empty tuple, a present value x is     *)
(* <<x>>.                                                                  *)
(***************************************************************************)
None == <<>>
Some(x) == <<x>>
IsSome(o) == o # <<>>
Get(o) == o[1]

\* dict helpers: a table or dict is a function whose domain is its key set.
Put(f, k, v) == [x \in (DOMAIN f) \cup {k} |-> IF x = k THEN v ELSE f[x]]
Del(f, k) == [x \in (DOMAIN f) \ {k} |-> f[x]]
EmptyDict == [x \in {} |-> 0]

RECURSIVE FilterInclusive(_, _)
\* a comprehension that keeps the timestamp that lies on the bound
FilterInclusive(s, bound) ==
    IF s = <<>> THEN <<>>
    ELSE IF Head(s) >= bound THEN <<Head(s)>> \o FilterInclusive(Tail(s), bound)
         ELSE FilterInclusive(Tail(s), bound)

RECURSIVE Filter(_, _)
\* [req for req in s if req > bound]
Filter(s, bound) ==
    IF s = <<>> THEN <<>>
    ELSE IF Head(s) > bound THEN <<Head(s)>> \o Filter(Tail(s), bound)
         ELSE Filter(Tail(s), bound)

\* datetime.isoformat / datetime.fromisoformat: the stored text and back.
isoformat(dt) == <<"iso", dt>>
fromisoformat(text) == text[2]

(***************************************************************************)
(* The world a handler runs in: every mutable structure of the process and *)
(* of the database, and whether the database answers (up): while it does   *)
(* not, every sqlite3 call of user_data_manager.py raises sqlite3.Error,   *)
(* which the function that made the call logs and swallows.                *)
(***************************************************************************)
World == [up      |-> TRUE,
          loads   |-> TRUE,
          uds     |-> user_data_store,
          dbs     |-> db_user_settings,
          dbb     |-> db_blocked_users,
          dbt     |-> db_trusted_users,
          cache   |-> trusted_users_set_cache,
          ledger  |-> total_daily_requests_rl]

\* what a worker leaves in the structures all workers share
CommitShared(w) ==
    /\ user_data_store' = w.uds
    /\ db_user_settings' = w.dbs
    /\ db_blocked_users' = w.dbb
    /\ db_trusted_users' = w.dbt
    /\ trusted_users_set_cache' = w.cache
    /\ total_daily_requests_rl' = w.ledger

\* a handler that runs from start to end while no other worker runs
Commit(w) ==
    /\ CommitShared(w)
    /\ UNCHANGED <<payment_thread, check_thread, workers>>

\* settings.TRUSTED_USERS_SET: fills the cache when it is None, with the
\* rows get_all_trusted_users_db returns (set() when its query fails), the
\* configured list and the owner.
LoadTrustedCache(w) ==
    IF IsSome(w.cache) THEN w
    ELSE [w EXCEPT !.cache =
             Some((IF w.up THEN w.dbt ELSE {}) \cup ENV_TRUSTED_USERS
                     \cup {BOT_OWNER_USER_ID})]

TRUSTED_USERS_SET(w) == Get(LoadTrustedCache(w).cache)

\* ---- user_data_manager.py ----

UserPersistentSettings ==
    [language |-> DEFAULT_LANGUAGE, gemini_model |-> DEFAULT_GEMINI_MODEL]

UserData(p_settings, blocked_until, violations_count) ==
    [language |-> p_settings.language,
     gemini_model |-> p_settings.gemini_model,
     state |-> "NONE",
     gemini_chat |-> FALSE,
     requests_timestamps |-> <<>>,
     last_request_timestamp |-> None,
     violations |-> violations_count,
     blocked_until_timestamp |-> blocked_until,
     session_start_timestamp |-> None,
     mistral_chat_history |-> FALSE,
     last_rate_request_timestamp |-> None,
     flux_data |-> FALSE,
     custom_donation_prompt_msg_id |-> None,
     processed_media_group_ids |-> {}]

save_user_persistent_settings_to_db(w, u, p) ==
    IF w.up THEN [w EXCEPT !.dbs = Put(@, u, p)] ELSE w

add_trusted_user_db(w, u) == IF w.up THEN [w EXCEPT !.dbt = @ \cup {u}] ELSE w

remove_trusted_user_db(w, u) == IF w.up THEN [w EXCEPT !.dbt = @ \ {u}] ELSE w

block_user_db(w, u, blocked_until, violations_count) ==
    IF w.up
    THEN [w EXCEPT !.dbb = Put(@, u, [blocked_until_iso |-> isoformat(blocked_until),
                                      violations |-> violations_count])]
    ELSE w

unblock_user_db(w, u) == IF w.up THEN [w EXCEPT !.dbb = Del(@, u)] ELSE w

\* get_blocked_user_info_db that answers from the table while the query fails
get_blocked_user_info_db_no_except(w, u) ==
    IF u \in DOMAIN w.dbb
    THEN Some([until |-> fromisoformat(w.dbb[u].blocked_until_iso),
               violations |-> w.dbb[u].violations])
    ELSE None

\* Optional (blocked_until, violations); None when the query fails
get_blocked_user_info_db(w, u) ==
    IF w.up /\ u \in DOMAIN w.dbb
    THEN Some([until |-> fromisoformat(w.dbb[u].blocked_until_iso),
               violations |-> w.dbb[u].violations])
    ELSE None

\* UserData.unblock
unblock(w, u) ==
    unblock_user_db([w EXCEPT !.uds[u].blocked_until_timestamp = None,
                              !.uds[u].violations = 0], u)

\* UserData.reset_chat_histories
reset_chat_histories(w, u) ==
    [w EXCEPT !.uds[u].gemini_chat = FALSE,
              !.uds[u].mistral_chat_history = FALSE]

\* check_and_unblock_if_trusted that reconciles nothing
check_and_unblock_if_trusted_skipped(w, u, current_trusted_set, t) == w

check_and_unblock_if_trusted(w, u, current_trusted_set, t) ==
    IF u \notin current_trusted_set THEN w
    ELSE LET db_block_info == get_blocked_user_info_db(w, u) IN
         IF u \in DOMAIN w.uds /\ IsSome(w.uds[u].blocked_until_timestamp)
         THEN LET w1 == [w EXCEPT !.uds[u].blocked_until_timestamp = None,
                                  !.uds[u].violations = 0]
              IN IF IsSome(db_block_info) THEN unblock_user_db(w1, u) ELSE w1
         ELSE IF IsSome(db_block_info) /\ Get(db_block_info).until > t
              THEN unblock_user_db(w, u)
              ELSE w

\* get_user_data that loads a block of the store without its violation count
get_user_data_drops_violations(w, u, t) ==
    IF u \in DOMAIN w.uds
    THEN LET w1 == LoadTrustedCache(w)
         IN check_and_unblock_if_trusted(w1, u, TRUSTED_USERS_SET(w1), t)
    ELSE LET found == w.up /\ w.loads /\ u \in DOMAIN w.dbs
             p_settings == IF found THEN w.dbs[u] ELSE UserPersistentSettings
             w1 == IF found THEN w
                   ELSE save_user_persistent_settings_to_db(w, u, p_settings)
             w2 == LoadTrustedCache(w1)
             blocked_info == get_blocked_user_info_db(w2, u)
         IN IF u \notin TRUSTED_USERS_SET(w2)
            THEN IF IsSome(blocked_info)
                 THEN IF Get(blocked_info).until > t
                      THEN [w2 EXCEPT !.uds = Put(@, u,
                               UserData(p_settings,
                                        Some(Get(blocked_info).until), 0))]
                      ELSE [unblock_user_db(w2, u) EXCEPT !.uds =
                               Put(@, u, UserData(p_settings, None, 0))]
                 ELSE [w2 EXCEPT !.uds = Put(@, u, UserData(p_settings, None, 0))]
            ELSE [unblock_user_db(w2, u) EXCEPT !.uds =
                     Put(@, u, UserData(p_settings, None, 0))]

\* get_user_data: the world after the call; the session is .uds[u].  found:
\* _load_user_persistent_settings_from_db returned a row (it returns None
\* when there is none and when its query fails: the whole store is down, or
\* this one query gets no answer, w.loads = FALSE).
get_user_data(w, u, t) ==
    IF u \in DOMAIN w.uds
    THEN LET w1 == LoadTrustedCache(w)
         IN check_and_unblock_if_trusted(w1, u, TRUSTED_USERS_SET(w1), t)
    ELSE LET found == w.up /\ w.loads /\ u \in DOMAIN w.dbs
             p_settings == IF found THEN w.dbs[u] ELSE UserPersistentSettings
             w1 == IF found THEN w
                   ELSE save_user_persistent_settings_to_db(w, u, p_settings)
             w2 == LoadTrustedCache(w1)
             blocked_info == get_blocked_user_info_db(w2, u)
         IN IF u \notin TRUSTED_USERS_SET(w2)
            THEN IF IsSome(blocked_info)
                 THEN IF Get(blocked_info).until > t
                      THEN [w2 EXCEPT !.uds = Put(@, u,
                               UserData(p_settings,
                                        Some(Get(blocked_info).until),
                                        Get(blocked_info).violations))]
                      ELSE [unblock_user_db(w2, u) EXCEPT !.uds =
                               Put(@, u, UserData(p_settings, None, 0))]
                 ELSE [w2 EXCEPT !.uds = Put(@, u, UserData(p_settings, None, 0))]
            ELSE [unblock_user_db(w2, u) EXCEPT !.uds =
                     Put(@, u, UserData(p_settings, None, 0))]

\* ---- rate_limiter.py ----

\* handle_limit_violation that counts the block duration in minutes
handle_limit_violation_minutes(w, u, t) ==
    LET v == w.uds[u].violations + 1
        w1 == [w EXCEPT !.uds[u].violations = v]
    IN IF v >= LIMIT_VIOLATIONS_BEFORE_BLOCK
       THEN LET block_until == t + USER_BLOCK_DURATION_HOURS * MINUTE
                w2 == [w1 EXCEPT !.uds[u].blocked_until_timestamp = Some(block_until)]
                w3 == block_user_db(w2, u, block_until, v)
                w4 == [w3 EXCEPT !.uds[u].state = "NONE"]
            IN reset_chat_histories(w4, u)
       ELSE w1

\* handle_limit_violation that blocks and leaves the mode and the contexts
handle_limit_violation_keeps_mode(w, u, t) ==
    LET v == w.uds[u].violations + 1
        w1 == [w EXCEPT !.uds[u].violations = v]
    IN IF v >= LIMIT_VIOLATIONS_BEFORE_BLOCK
       THEN LET block_until == t + USER_BLOCK_DURATION_HOURS * HOUR
                w2 == [w1 EXCEPT !.uds[u].blocked_until_timestamp = Some(block_until)]
            IN block_user_db(w2, u, block_until, v)
       ELSE w1

\* handle_limit_violation (closure of check_rate_limits): one more violation,
\* and at the threshold the block, the store record and the forced reset.
handle_limit_violation(w, u, t) ==
    LET v == w.uds[u].violations + 1
        w1 == [w EXCEPT !.uds[u].violations = v]
    IN IF v >= LIMIT_VIOLATIONS_BEFORE_BLOCK
       THEN LET block_until == t + USER_BLOCK_DURATION_HOURS * HOUR
                w2 == [w1 EXCEPT !.uds[u].blocked_until_timestamp = Some(block_until)]
                w3 == block_user_db(w2, u, block_until, v)
                w4 == [w3 EXCEPT !.uds[u].state = "NONE"]
            IN reset_chat_histories(w4, u)
       ELSE w1

\* messages handle_limit_violation sends: the limit text, and at the threshold
\* the block text
violation_messages(w, u) ==
    IF w.uds[u].violations + 1 >= LIMIT_VIOLATIONS_BEFORE_BLOCK THEN 2 ELSE 1

\* a "rate" branch that stamps the refused request as well
rate_check_stamps_refusal(w, u, t) ==
    LET last == w.uds[u].last_rate_request_timestamp IN
    IF IsSome(last) /\ t - Get(last) < RATE_COOLDOWN
    THEN [w |-> [w EXCEPT !.uds[u].last_rate_request_timestamp = Some(t)],
          ret |-> FALSE, sent |-> 1, key |-> "rate_limit_minute"]
    ELSE [w |-> [w EXCEPT !.uds[u].last_rate_request_timestamp = Some(t)],
          ret |-> TRUE, sent |-> 0, key |-> ""]

\* the "rate" branch of check_rate_limits (lines 50-59)
rate_check(w, u, t) ==
    LET last == w.uds[u].last_rate_request_timestamp IN
    IF IsSome(last) /\ t - Get(last) < RATE_COOLDOWN
    THEN [w |-> w, ret |-> FALSE, sent |-> 1, key |-> "rate_limit_minute"]
    ELSE [w |-> [w EXCEPT !.uds[u].last_rate_request_timestamp = Some(t)],
          ret |-> TRUE, sent |-> 0, key |-> ""]

\* the pruning of both rolling lists (lines 61-65)
prune_windows(w, u, t) ==
    [w EXCEPT !.uds[u].requests_timestamps = Filter(@, t - DAY),
              !.ledger = Filter(@, t - DAY)]

\* a cooldown test that records a violation like the caps do
cooldown_then_count_violation(w, u, increment_request_count, t) ==
    LET s == w.uds[u] IN
    IF IsSome(s.last_request_timestamp)
       /\ t - Get(s.last_request_timestamp) < REQUEST_COOLDOWN_SECONDS
    THEN [w |-> handle_limit_violation(w, u, t), ret |-> FALSE,
          sent |-> violation_messages(w, u),
          key |-> "rate_limit_cooldown"]
    ELSE IF increment_request_count
    THEN [w |-> [w EXCEPT !.uds[u].requests_timestamps = Append(@, t),
                          !.ledger = Append(@, t),
                          !.uds[u].last_request_timestamp = Some(t)],
          ret |-> TRUE, sent |-> 0, key |-> ""]
    ELSE [w |-> w, ret |-> TRUE, sent |-> 0, key |-> ""]

\* a counting of the allowed request that ignores the flag
cooldown_then_count_ignores_flag(w, u, increment_request_count, t) ==
    LET s == w.uds[u] IN
    IF IsSome(s.last_request_timestamp)
       /\ t - Get(s.last_request_timestamp) < REQUEST_COOLDOWN_SECONDS
    THEN [w |-> w, ret |-> FALSE, sent |-> 1, key |-> "rate_limit_cooldown"]
    ELSE [w |-> [w EXCEPT !.uds[u].requests_timestamps = Append(@, t),
                          !.ledger = Append(@, t),
                          !.uds[u].last_request_timestamp = Some(t)],
          ret |-> TRUE, sent |-> 0, key |-> ""]

\* the cooldown test and the counting of an allowed request (lines 108-122)
cooldown_then_count(w, u, increment_request_count, t) ==
    LET s == w.uds[u] IN
    IF IsSome(s.last_request_timestamp)
       /\ t - Get(s.last_request_timestamp) < REQUEST_COOLDOWN_SECONDS
    THEN [w |-> w, ret |-> FALSE, sent |-> 1, key |-> "rate_limit_cooldown"]
    ELSE IF increment_request_count
    THEN [w |-> [w EXCEPT !.uds[u].requests_timestamps = Append(@, t),
                          !.ledger = Append(@, t),
                          !.uds[u].last_request_timestamp = Some(t)],
          ret |-> TRUE, sent |-> 0, key |-> ""]
    ELSE [w |-> w, ret |-> TRUE, sent |-> 0, key |-> ""]

\* quota_checks whose cooldown test rejects a request made exactly
\* REQUEST_COOLDOWN_SECONDS after the last one
quota_checks_cooldown_le(w, u, increment_request_count, t) ==
    LET s == w.uds[u]
        requests_last_minute == Len(Filter(s.requests_timestamps, t - MINUTE))
    IN IF Len(w.ledger) >= MAX_REQUESTS_PER_DAY
       THEN [w |-> handle_limit_violation(w, u, t), ret |-> FALSE,
             sent |-> violation_messages(w, u),
             key |-> "rate_limit_total_daily"]
       ELSE IF Len(s.requests_timestamps) >= MAX_REQUESTS_PER_USER_PER_DAY
       THEN [w |-> handle_limit_violation(w, u, t), ret |-> FALSE,
             sent |-> violation_messages(w, u),
             key |-> "rate_limit_daily"]
       ELSE IF requests_last_minute >= MAX_REQUESTS_PER_MINUTE
       THEN [w |-> handle_limit_violation(w, u, t), ret |-> FALSE,
             sent |-> violation_messages(w, u),
             key |-> "rate_limit_minute"]
       ELSE IF IsSome(s.last_request_timestamp)
               /\ t - Get(s.last_request_timestamp) <= REQUEST_COOLDOWN_SECONDS
       THEN [w |-> w, ret |-> FALSE, sent |-> 1, key |-> "rate_limit_cooldown"]
       ELSE IF increment_request_count
       THEN [w |-> [w EXCEPT !.uds[u].requests_timestamps = Append(@, t),
                             !.ledger = Append(@, t),
                             !.uds[u].last_request_timestamp = Some(t)],
             ret |-> TRUE, sent |-> 0, key |-> ""]
       ELSE [w |-> w, ret |-> TRUE, sent |-> 0, key |-> ""]

\* quota_checks whose per-minute test lets one request more through
quota_checks_minute_gt(w, u, increment_request_count, t) ==
    LET s == w.uds[u]
        requests_last_minute == Len(Filter(s.requests_timestamps, t - MINUTE))
    IN IF Len(w.ledger) >= MAX_REQUESTS_PER_DAY
       THEN [w |-> handle_limit_violation(w, u, t), ret |-> FALSE,
             sent |-> violation_messages(w, u),
             key |-> "rate_limit_total_daily"]
       ELSE IF Len(s.requests_timestamps) >= MAX_REQUESTS_PER_USER_PER_DAY
       THEN [w |-> handle_limit_violation(w, u, t), ret |-> FALSE,
             sent |-> violation_messages(w, u),
             key |-> "rate_limit_daily"]
       ELSE IF requests_last_minute > MAX_REQUESTS_PER_MINUTE
       THEN [w |-> handle_limit_violation(w, u, t), ret |-> FALSE,
             sent |-> violation_messages(w, u),
             key |-> "rate_limit_minute"]
       ELSE IF IsSome(s.last_request_timestamp)
               /\ t - Get(s.last_request_timestamp) < REQUEST_COOLDOWN_SECONDS
       THEN [w |-> w, ret |-> FALSE, sent |-> 1, key |-> "rate_limit_cooldown"]
       ELSE IF increment_request_count
       THEN [w |-> [w EXCEPT !.uds[u].requests_timestamps = Append(@, t),
                             !.ledger = Append(@, t),
                             !.uds[u].last_request_timestamp = Some(t)],
             ret |-> TRUE, sent |-> 0, key |-> ""]
       ELSE [w |-> w, ret |-> TRUE, sent |-> 0, key |-> ""]

\* quota_checks without the global daily cap
quota_checks_no_global_cap(w, u, increment_request_count, t) ==
    LET s == w.uds[u]
        requests_last_minute == Len(Filter(s.requests_timestamps, t - MINUTE))
    IN IF Len(s.requests_timestamps) >= MAX_REQUESTS_PER_USER_PER_DAY
       THEN [w |-> handle_limit_violation(w, u, t), ret |-> FALSE,
             sent |-> violation_messages(w, u),
             key |-> "rate_limit_daily"]
       ELSE IF requests_last_minute >= MAX_REQUESTS_PER_MINUTE
       THEN [w |-> handle_limit_violation(w, u, t), ret |-> FALSE,
             sent |-> violation_messages(w, u),
             key |-> "rate_limit_minute"]
       ELSE cooldown_then_count(w, u, increment_request_count, t)

\* quota_checks that tests the cooldown before the caps
quota_checks_cooldown_first(w, u, increment_request_count, t) ==
    LET s == w.uds[u]
        requests_last_minute == Len(Filter(s.requests_timestamps, t - MINUTE))
    IN IF IsSome(s.last_request_timestamp)
          /\ t - Get(s.last_request_timestamp) < REQUEST_COOLDOWN_SECONDS
       THEN [w |-> w, ret |-> FALSE, sent |-> 1, key |-> "rate_limit_cooldown"]
       ELSE IF Len(w.ledger) >= MAX_REQUESTS_PER_DAY
       THEN [w |-> handle_limit_violation(w, u, t), ret |-> FALSE,
             sent |-> violation_messages(w, u),
             key |-> "rate_limit_total_daily"]
       ELSE IF Len(s.requests_timestamps) >= MAX_REQUESTS_PER_USER_PER_DAY
       THEN [w |-> handle_limit_violation(w, u, t), ret |-> FALSE,
             sent |-> violation_messages(w, u),
             key |-> "rate_limit_daily"]
       ELSE IF requests_last_minute >= MAX_REQUESTS_PER_MINUTE
       THEN [w |-> handle_limit_violation(w, u, t), ret |-> FALSE,
             sent |-> violation_messages(w, u),
             key |-> "rate_limit_minute"]
       ELSE cooldown_then_count(w, u, increment_request_count, t)

\* the cap tests of the general path (lines 91-106), after the pruning, and
\* then the cooldown test; key is the text of the refusal the call sends
quota_checks(w, u, increment_request_count, t) ==
    LET s == w.uds[u]
        requests_last_minute == Len(Filter(s.requests_timestamps, t - MINUTE))
    IN IF Len(w.ledger) >= MAX_REQUESTS_PER_DAY
       THEN [w |-> handle_limit_violation(w, u, t), ret |-> FALSE,
             sent |-> violation_messages(w, u),
             key |-> "rate_limit_total_daily"]
       ELSE IF Len(s.requests_timestamps) >= MAX_REQUESTS_PER_USER_PER_DAY
       THEN [w |-> handle_limit_violation(w, u, t), ret |-> FALSE,
             sent |-> violation_messages(w, u),
             key |-> "rate_limit_daily"]
       ELSE IF requests_last_minute >= MAX_REQUESTS_PER_MINUTE
       THEN [w |-> handle_limit_violation(w, u, t), ret |-> FALSE,
             sent |-> violation_messages(w, u),
             key |-> "rate_limit_minute"]
       ELSE cooldown_then_count(w, u, increment_request_count, t)

\* the block test of check_rate_limits (lines 44-48) on a fetched session:
\* TRUE when the call stops at an active block
stops_at_block(w, u, t) ==
    /\ IsSome(w.uds[u].blocked_until_timestamp)
    /\ t < Get(w.uds[u].blocked_until_timestamp)

\* the expiry branch that clears the block and keeps the violation counter
clear_expired_block_keeps_violations(w, u, t) ==
    IF IsSome(w.uds[u].blocked_until_timestamp)
       /\ t >= Get(w.uds[u].blocked_until_timestamp)
    THEN unblock_user_db([w EXCEPT !.uds[u].blocked_until_timestamp = None], u)
    ELSE w

\* the expiry branch (lines 46-48)
clear_expired_block(w, u, t) ==
    IF IsSome(w.uds[u].blocked_until_timestamp)
       /\ t >= Get(w.uds[u].blocked_until_timestamp)
    THEN unblock(w, u)
    ELSE w

\* the refusal texts of the three caps (lines 92, 97, 104)
CapKeys == {"rate_limit_total_daily", "rate_limit_daily", "rate_limit_minute"}

\* check_rate_limits with the trusted bypass (lines 39-40) left out
check_rate_limits_no_bypass(w0, u, command_type, increment_request_count, t) ==
    LET w == get_user_data(w0, u, t) IN
    IF stops_at_block(w, u, t) THEN [w |-> w, ret |-> FALSE, sent |-> 0, key |-> ""]
    ELSE LET w1 == clear_expired_block(w, u, t) IN
         IF command_type = "rate" THEN rate_check(w1, u, t)
         ELSE quota_checks(prune_windows(w1, u, t), u, increment_request_count, t)

\* check_rate_limits that counts a request made during a block as a violation
check_rate_limits_block_counts(w0, u, command_type, increment_request_count, t) ==
    LET w == get_user_data(w0, u, t) IN
    IF u \in TRUSTED_USERS_SET(w) THEN [w |-> w, ret |-> TRUE, sent |-> 0, key |-> ""]
    ELSE IF stops_at_block(w, u, t)
    THEN [w |-> handle_limit_violation(w, u, t), ret |-> FALSE, sent |-> 0, key |-> ""]
    ELSE LET w1 == clear_expired_block(w, u, t) IN
         IF command_type = "rate" THEN rate_check(w1, u, t)
         ELSE quota_checks(prune_windows(w1, u, t), u, increment_request_count, t)

\* check_rate_limits(user_id, command_type, increment_request_count)
check_rate_limits(w0, u, command_type, increment_request_count, t) ==
    LET w == get_user_data(w0, u, t) IN
    IF u \in TRUSTED_USERS_SET(w) THEN [w |-> w, ret |-> TRUE, sent |-> 0, key |-> ""]
    ELSE IF stops_at_block(w, u, t) THEN [w |-> w, ret |-> FALSE, sent |-> 0, key |-> ""]
    ELSE LET w1 == clear_expired_block(w, u, t) IN
         IF command_type = "rate" THEN rate_check(w1, u, t)
         ELSE quota_checks(prune_windows(w1, u, t), u, increment_request_count, t)

\* is_user_blocked that answers for an expired block and leaves it in place
is_user_blocked_keeps_expired(w0, u, t) ==
    LET w == get_user_data(w0, u, t) IN
    IF stops_at_block(w, u, t) THEN [w |-> w, ret |-> TRUE, sent |-> 1]
    ELSE [w |-> w, ret |-> FALSE, sent |-> 0]

\* is_user_blocked(user_id)
is_user_blocked(w0, u, t) ==
    LET w == get_user_data(w0, u, t) IN
    IF stops_at_block(w, u, t) THEN [w |-> w, ret |-> TRUE, sent |-> 1]
    ELSE [w |-> clear_expired_block(w, u, t), ret |-> FALSE, sent |-> 0]

\* ---- handlers/owner_handlers.py (the caller is the owner: owner_only) ----

\* add_trusted_command_handler that does not reconcile the new trusted user
add_trusted_command_handler_no_reconcile(w0, target, t) ==
    LET w == LoadTrustedCache(get_user_data(w0, BOT_OWNER_USER_ID, t)) IN
    IF target \in TRUSTED_USERS_SET(w) THEN [w |-> w, ret |-> "already"]
    ELSE LET w1 == [add_trusted_user_db(w, target) EXCEPT !.cache = None]
             w2 == LoadTrustedCache(w1)
         IN IF target \in TRUSTED_USERS_SET(w2)
            THEN [w |-> w2, ret |-> "success"]
            ELSE [w |-> w2, ret |-> "error"]

add_trusted_command_handler(w0, target, t) ==
    LET w == LoadTrustedCache(get_user_data(w0, BOT_OWNER_USER_ID, t)) IN
    IF target \in TRUSTED_USERS_SET(w) THEN [w |-> w, ret |-> "already"]
    ELSE LET w1 == [add_trusted_user_db(w, target) EXCEPT !.cache = None]
             w2 == LoadTrustedCache(w1)
         IN IF target \in TRUSTED_USERS_SET(w2)
            THEN [w |-> check_and_unblock_if_trusted(w2, target,
                                                     TRUSTED_USERS_SET(w2), t),
                  ret |-> "success"]
            ELSE [w |-> w2, ret |-> "error"]

remove_trusted_command_handler(w0, target, t) ==
    LET w == get_user_data(w0, BOT_OWNER_USER_ID, t) IN
    IF target = BOT_OWNER_USER_ID THEN [w |-> w, ret |-> "is_owner"]
    ELSE LET wc == LoadTrustedCache(w) IN
         IF target \in TRUSTED_USERS_SET(wc)
         THEN LET w1 == [remove_trusted_user_db(wc, target) EXCEPT !.cache = None]
                  w2 == LoadTrustedCache(w1)
              IN IF target \notin TRUSTED_USERS_SET(w2)
                 THEN [w |-> w2, ret |-> "success"]
                 ELSE [w |-> w2, ret |-> "error"]
         ELSE [w |-> wc, ret |-> "not_found"]

\* ban_user_command_handler that leaves the mode and the chat contexts
ban_user_command_handler_keeps_mode(w0, target, t) ==
    LET w == get_user_data(w0, BOT_OWNER_USER_ID, t)
        existing_block_info == get_blocked_user_info_db(w, target)
    IN IF target = BOT_OWNER_USER_ID THEN [w |-> w, ret |-> "cannot_ban_owner"]
       ELSE IF IsSome(existing_block_info)
               /\ Get(existing_block_info).violations = MANUAL_BAN
               /\ Get(existing_block_info).until > t
       THEN [w |-> w, ret |-> "already_banned"]
       ELSE LET blocked_until == t + BAN_DURATION
                w1 == block_user_db(w, target, blocked_until, MANUAL_BAN)
                w2 == get_user_data(w1, target, t)
            IN [w |-> [w2 EXCEPT
                         !.uds[target].blocked_until_timestamp = Some(blocked_until),
                         !.uds[target].violations = MANUAL_BAN],
                ret |-> "success"]

ban_user_command_handler(w0, target, t) ==
    LET w == get_user_data(w0, BOT_OWNER_USER_ID, t)
        existing_block_info == get_blocked_user_info_db(w, target)
    IN IF target = BOT_OWNER_USER_ID THEN [w |-> w, ret |-> "cannot_ban_owner"]
       ELSE IF IsSome(existing_block_info)
               /\ Get(existing_block_info).violations = MANUAL_BAN
               /\ Get(existing_block_info).until > t
       THEN [w |-> w, ret |-> "already_banned"]
       ELSE LET blocked_until == t + BAN_DURATION
                w1 == block_user_db(w, target, blocked_until, MANUAL_BAN)
                w2 == get_user_data(w1, target, t)
                w3 == [w2 EXCEPT !.uds[target].blocked_until_timestamp = Some(blocked_until),
                                 !.uds[target].violations = MANUAL_BAN,
                                 !.uds[target].state = "NONE"]
            IN [w |-> reset_chat_histories(w3, target), ret |-> "success"]

unban_user_command_handler(w0, target, t) ==
    LET w == get_user_data(w0, BOT_OWNER_USER_ID, t)
        existing_block_info == get_blocked_user_info_db(w, target)
    IN IF ~IsSome(existing_block_info) \/ Get(existing_block_info).until < t
       THEN LET w1 == unblock_user_db(w, target)
            IN [w |-> IF target \in DOMAIN w1.uds THEN unblock(w1, target) ELSE w1,
                ret |-> "not_banned"]
       ELSE [w |-> unblock(get_user_data(w, target, t), target), ret |-> "success"]

\* int(parts[1]) that reads a text that is no number as the id 2
int_lenient(text) ==
    CASE text = "1" -> Some(1)
      [] text = "2" -> Some(2)
      [] text = "3" -> Some(3)
      [] OTHER -> Some(2)

\* int(parts[1]): the number a decimal text denotes; None stands for the
\* ValueError every other text raises
int(text) ==
    CASE text = "1" -> Some(1)
      [] text = "2" -> Some(2)
      [] text = "3" -> Some(3)
      [] OTHER -> None

\* The handler of an owner command run on message.text.split() = parts, the
\* caller being the owner: the fetch of the caller's session, the usage reply
\* to a missing or malformed identifier, and the command itself.
owner_handlers(w0, parts, t) ==
    IF Len(parts) < 2 \/ ~IsSome(int(parts[2]))
    THEN [w |-> get_user_data(w0, BOT_OWNER_USER_ID, t), ret |-> "parse_error"]
    ELSE LET target_user_id == Get(int(parts[2])) IN
         CASE parts[1] = "/addtrusted" ->
                 add_trusted_command_handler(w0, target_user_id, t)
           [] parts[1] = "/removetrusted" ->
                 remove_trusted_command_handler(w0, target_user_id, t)
           [] parts[1] = "/ban" -> ban_user_command_handler(w0, target_user_id, t)
           [] parts[1] = "/unban" -> unban_user_command_handler(w0, target_user_id, t)

\* ---- handlers/payment_handlers.py ----

success_payment_handler(w0, u, t) ==
    LET w == get_user_data(w0, u, t)
        w1 == IF IsSome(w.uds[u].blocked_until_timestamp) THEN unblock(w, u) ELSE w
        w2 == LoadTrustedCache(w1)
        w3 == IF u \notin TRUSTED_USERS_SET(w2)
              THEN [add_trusted_user_db(w2, u) EXCEPT !.cache = None]
              ELSE w2
        w4 == LoadTrustedCache(w3)
    IN check_and_unblock_if_trusted(w4, u, TRUSTED_USERS_SET(w4), t)

\* ---- core.py, app.py: what every handler shares ----

\* "let v be e in F(v)", with e evaluated once
Bind(e, F(_)) == CHOOSE y \in {F(v) : v \in {e}} : TRUE

ALLOWED_COMMANDS_WHEN_BLOCKED ==
    {"/start", "/donate", "/paysupport", "/user", "/lang"}

\* the keys of core.command_handler_map once every register_* call has run
RecognizedCommands ==
    {"/start", "/lang", "/user", "/getid", "/rate",
     "/addtrusted", "/removetrusted", "/ban", "/unban",
     "/donate", "/paysupport", "/mistral", "/new_mistral_chat",
     "/gemini_menu", "/model", "/gemini", "/new_gemini_chat", "/flux"}

\* message.text.startswith('/')
IsCommand(m) == m \in RecognizedCommands \cup {"/unknown"}

\* What the outside world answers to a handler: "ok" when every Telegram and
\* AI call succeeds, "fail" when the first one fails, "api_error" when the
\* AI request of a chat handler fails after the session was set up.
Outcomes == {"ok", "fail", "api_error"}

\* user_data.state = s
set_state(w, u, s) == [w EXCEPT !.uds[u].state = s]

\* UserData.clear_flux_data
clear_flux_data(w, u) == [w EXCEPT !.uds[u].flux_data = FALSE]

\* UserData.clear_custom_donation_prompt
clear_custom_donation_prompt(w, u) ==
    [w EXCEPT !.uds[u].custom_donation_prompt_msg_id = None]

\* the lifetime test of check_session_expiry_core on the fetched session
expire_session(w, u, t) ==
    IF ~IsSome(w.uds[u].session_start_timestamp)
    THEN [w |-> w, ret |-> TRUE]
    ELSE IF t - Get(w.uds[u].session_start_timestamp) <= SESSION_LIFETIME
         THEN [w |-> w, ret |-> TRUE]
         ELSE [w |-> [reset_chat_histories(w, u) EXCEPT
                         !.uds[u].state = "NONE",
                         !.uds[u].session_start_timestamp = None],
               ret |-> FALSE]

\* check_session_expiry_core(user_id): the world after the call and the bool
check_session_expiry_core(w0, u, t) ==
    Bind(LoadTrustedCache(w0), LAMBDA wc :
        IF u \in TRUSTED_USERS_SET(wc) THEN [w |-> wc, ret |-> TRUE]
        ELSE Bind(get_user_data(wc, u, t), LAMBDA w : expire_session(w, u, t)))

\* "not <context> or not check_session_expiry(user_id)": the world after the
\* test and whether a new context is needed
needs_new_session(w, u, t, has_context) ==
    IF ~has_context THEN [w |-> w, ret |-> TRUE]
    ELSE Bind(check_session_expiry_core(w, u, t), LAMBDA e :
             [w |-> e.w, ret |-> ~e.ret])

\* the test of is_user_blocked as a gate: the world after it, and whether
\* the caller goes on
blocked_gate(w, u, t) ==
    Bind(is_user_blocked(w, u, t), LAMBDA r : [w |-> r.w, runs |-> ~r.ret])

\* block_checked that lets every message through
block_checked_lets_through(w0, u, m, t) == [w |-> w0, runs |-> TRUE]

\* block_checked(func) called with message m: the world after its test and
\* whether func runs; it does not run for a blocked user unless m is a
\* command allowed when blocked
block_checked(w0, u, m, t) ==
    IF IsCommand(m) /\ m \in ALLOWED_COMMANDS_WHEN_BLOCKED
    THEN [w |-> w0, runs |-> TRUE]
    ELSE blocked_gate(w0, u, t)

\* owner_only(func) called with a bare owner command: anyone but the owner is
\* told "permission denied"; the owner gets the usage reply of the command
owner_only(w0, u, m, t, out) == get_user_data(w0, u, t)

\* ---- handlers/common_handlers.py: the command handlers ----

send_welcome_handler(w0, u, m, t, out) == get_user_data(w0, u, t)

set_language_command_handler(w0, u, m, t, out) ==
    set_state(get_user_data(w0, u, t), u, "NONE")

check_user_status_command_handler(w0, u, m, t, out) ==
    set_state(LoadTrustedCache(get_user_data(w0, u, t)), u, "NONE")

getid_command_handler(w0, u, m, t, out) ==
    Bind(check_rate_limits(get_user_data(w0, u, t), u, "getid_entry", FALSE, t),
         LAMBDA r : IF ~r.ret THEN r.w ELSE set_state(r.w, u, "NONE"))

send_rates_command_handler(w0, u, m, t, out) ==
    Bind(check_rate_limits(get_user_data(w0, u, t), u, "rate", TRUE, t),
         LAMBDA r : IF ~r.ret THEN r.w ELSE set_state(r.w, u, "NONE"))

\* set_language_callback_handler with call.data = "set_language:<code>";
\* the assignment runs the language setter of UserData (lines 51-55 of
\* user_data_manager.py): a new value is written through to the store
set_language_callback_handler(w0, u, code, t) ==
    Bind(get_user_data(w0, u, t), LAMBDA w :
         IF code \in LANGUAGES /\ w.uds[u].language # code
         THEN save_user_persistent_settings_to_db(
                 [w EXCEPT !.uds[u].language = code], u,
                 [language |-> code, gemini_model |-> w.uds[u].gemini_model])
         ELSE w)

\* ---- handlers/payment_handlers.py ----

donate_command_handler(w0, u, m, t, out) ==
    set_state(get_user_data(w0, u, t), u, "NONE")

pay_support_handler(w0, u, m, t, out) ==
    set_state(get_user_data(w0, u, t), u, "NONE")

\* ---- handlers/mistral_handlers.py ----

_init_mistral_session(w, u, t) ==
    [w EXCEPT !.uds[u].mistral_chat_history = FALSE,
              !.uds[u].session_start_timestamp = Some(t)]

start_mistral_mode_command_handler(w0, u, m, t, out) ==
    IF out = "fail" THEN get_user_data(w0, u, t)
    ELSE Bind(set_state(get_user_data(w0, u, t), u, "MISTRAL_MODE"), LAMBDA w1 :
         Bind(needs_new_session(w1, u, t, w1.uds[u].mistral_chat_history),
              LAMBDA e : IF e.ret THEN _init_mistral_session(e.w, u, t) ELSE e.w))

new_mistral_chat_command_handler(w0, u, m, t, out) ==
    set_state(_init_mistral_session(get_user_data(w0, u, t), u, t), u,
              IF out = "fail" THEN "NONE" ELSE "MISTRAL_MODE")

\* ---- handlers/gemini_handlers.py ----

show_gemini_menu_handler(w0, u, m, t, out) ==
    set_state(get_user_data(w0, u, t), u, "NONE")

set_gemini_model_command_handler(w0, u, m, t, out) ==
    set_state(get_user_data(w0, u, t), u, "NONE")

\* set_model_callback_handler (under block_checked) with call.data =
\* "set_model:<name>"; the assignment runs the gemini_model setter of
\* UserData (lines 61-65 of user_data_manager.py)
set_model_callback_handler(w0, u, model_name, t) ==
    Bind(blocked_gate(w0, u, t), LAMBDA g :
         IF ~g.runs THEN g.w
         ELSE Bind(get_user_data(g.w, u, t), LAMBDA w :
              IF model_name \notin AVAILABLE_MODELS THEN w
              ELSE IF w.uds[u].gemini_model = model_name
              THEN [w EXCEPT !.uds[u].gemini_chat = FALSE]
              ELSE save_user_persistent_settings_to_db(
                      [w EXCEPT !.uds[u].gemini_model = model_name,
                                !.uds[u].gemini_chat = FALSE], u,
                      [language |-> w.uds[u].language,
                       gemini_model |-> model_name])))

\* init_gemini_model and start_gemini_chat succeeded
start_gemini_chat(w, u, t) ==
    [w EXCEPT !.uds[u].gemini_chat = TRUE,
              !.uds[u].session_start_timestamp = Some(t)]

start_gemini_mode_command_handler(w0, u, m, t, out) ==
    IF out = "fail" THEN get_user_data(w0, u, t)
    ELSE Bind(set_state(get_user_data(w0, u, t), u, "GEMINI_MODE"), LAMBDA w1 :
         Bind(needs_new_session(w1, u, t, w1.uds[u].gemini_chat), LAMBDA e :
              IF ~e.ret THEN e.w
              ELSE IF out = "ok" THEN start_gemini_chat(e.w, u, t)
                   ELSE set_state(e.w, u, "NONE")))

new_gemini_chat_command_handler(w0, u, m, t, out) ==
    Bind([get_user_data(w0, u, t) EXCEPT !.uds[u].gemini_chat = FALSE], LAMBDA w1 :
         IF out = "ok" THEN set_state(start_gemini_chat(w1, u, t), u, "GEMINI_MODE")
         ELSE set_state(w1, u, "NONE"))

\* ---- handlers/flux_handlers.py ----

start_flux_mode_command_handler(w0, u, m, t, out) ==
    IF out = "fail" THEN get_user_data(w0, u, t)
    ELSE clear_flux_data(set_state(get_user_data(w0, u, t), u, "FLUX_PROMPT"), u)

\* ---- core.command_handler_map ----

\* the commands whose handler is registered under block_checked
BlockCheckedCommands ==
    {"/lang", "/user", "/getid", "/rate", "/mistral", "/new_mistral_chat",
     "/gemini_menu", "/model", "/gemini", "/new_gemini_chat", "/flux"}

\* the function behind the decorators of the handler of command c
command_function(c, w, u, t, out) ==
    CASE c = "/start" -> send_welcome_handler(w, u, c, t, out)
      [] c = "/lang" -> set_language_command_handler(w, u, c, t, out)
      [] c = "/user" -> check_user_status_command_handler(w, u, c, t, out)
      [] c = "/getid" -> getid_command_handler(w, u, c, t, out)
      [] c = "/rate" -> send_rates_command_handler(w, u, c, t, out)
      [] c \in {"/addtrusted", "/removetrusted", "/ban", "/unban"} ->
            owner_only(w, u, c, t, out)
      [] c = "/donate" -> donate_command_handler(w, u, c, t, out)
      [] c = "/paysupport" -> pay_support_handler(w, u, c, t, out)
      [] c = "/mistral" -> start_mistral_mode_command_handler(w, u, c, t, out)
      [] c = "/new_mistral_chat" -> new_mistral_chat_command_handler(w, u, c, t, out)
      [] c = "/gemini_menu" -> show_gemini_menu_handler(w, u, c, t, out)
      [] c = "/model" -> set_gemini_model_command_handler(w, u, c, t, out)
      [] c = "/gemini" -> start_gemini_mode_command_handler(w, u, c, t, out)
      [] c = "/new_gemini_chat" -> new_gemini_chat_command_handler(w, u, c, t, out)
      [] c = "/flux" -> start_flux_mode_command_handler(w, u, c, t, out)

\* command_handler_map[c](message): the registered, decorated function
command_handler_map(c, w, u, t, out) ==
    Bind(IF c \in BlockCheckedCommands THEN block_checked(w, u, c, t)
         ELSE [w |-> w, runs |-> TRUE],
         LAMBDA g : IF g.runs THEN command_function(c, g.w, u, t, out) ELSE g.w)

\* The dispatch every mode handler does once it has left its mode: the
\* handler of a recognized command runs unless the user is blocked and the
\* command is not allowed then; an unknown command gets the "exited" notice.
dispatch_command(w, u, c, t, out) ==
    IF c \notin RecognizedCommands THEN w
    ELSE Bind(IF c \in ALLOWED_COMMANDS_WHEN_BLOCKED
              THEN [w |-> w, runs |-> TRUE]
              ELSE blocked_gate(w, u, t),
              LAMBDA g : IF g.runs THEN command_handler_map(c, g.w, u, t, out)
                         ELSE g.w)

\* ---- the mode handlers (message handlers filtered on the state) ----

\* user_s_data.state = BotState.NONE; processed_media_group_ids.clear()
leave_forward_mode(w, u) ==
    [w EXCEPT !.uds[u].state = "NONE",
              !.uds[u].processed_media_group_ids = {}]

\* handle_forwarded_message_handler; "fwd" is a forwarded text message
handle_forwarded_message_handler(w0, u, m, t, out) ==
    IF IsCommand(m)
    THEN dispatch_command(leave_forward_mode(get_user_data(w0, u, t), u),
                          u, m, t, out)
    ELSE IF m = "fwd"
         THEN leave_forward_mode(
                 check_rate_limits(get_user_data(w0, u, t), u,
                                   "getid_forward_action", TRUE, t).w, u)
         ELSE leave_forward_mode(get_user_data(w0, u, t), u)

_handle_command_during_custom_input(w, u, m, t, out) ==
    dispatch_command(clear_custom_donation_prompt(set_state(w, u, "NONE"), u),
                     u, m, t, out)

\* handle_donate_custom_amount_input; "5" is a valid amount
handle_donate_custom_amount_input(w0, u, m, t, out) ==
    IF IsCommand(m)
    THEN _handle_command_during_custom_input(get_user_data(w0, u, t), u, m, t, out)
    ELSE IF m = "5"
         THEN clear_custom_donation_prompt(
                 set_state(get_user_data(w0, u, t), u, "NONE"), u)
         ELSE get_user_data(w0, u, t)

_handle_command_in_mistral_mode(w, u, m, t, out) ==
    dispatch_command(set_state(w, u, "NONE"), u, m, t, out)

\* the request to Mistral and what its failures leave (_handle_mistral_error)
send_message_to_mistral(w1, u, out) ==
    CASE out = "ok" -> [w1 EXCEPT !.uds[u].mistral_chat_history = TRUE]
      [] out = "api_error" -> set_state(w1, u, "NONE")
      [] out = "fail" -> [w1 EXCEPT !.uds[u].mistral_chat_history = FALSE,
                                    !.uds[u].state = "NONE"]

handle_mistral_mode_message_handler(w0, u, m, t, out) ==
    IF IsCommand(m)
    THEN _handle_command_in_mistral_mode(get_user_data(w0, u, t), u, m, t, out)
    ELSE Bind(check_rate_limits(get_user_data(w0, u, t), u, "mistral", TRUE, t),
              LAMBDA r :
         IF ~r.ret THEN r.w
         ELSE Bind(check_session_expiry_core(r.w, u, t), LAMBDA e :
                 send_message_to_mistral(
                    IF e.ret THEN e.w ELSE _init_mistral_session(e.w, u, t),
                    u, out)))

\* the request to Gemini (send_message_to_gemini) and what its failure leaves
send_message_to_gemini(w1, u, out) ==
    IF out = "ok" THEN w1 ELSE set_state(w1, u, "NONE")

handle_gemini_mode_handler(w0, u, m, t, out) ==
    IF IsCommand(m)
    THEN dispatch_command(set_state(get_user_data(w0, u, t), u, "NONE"), u, m, t, out)
    ELSE Bind(check_rate_limits(get_user_data(w0, u, t), u, "gemini", TRUE, t),
              LAMBDA r :
         IF ~r.ret THEN r.w
         ELSE Bind(needs_new_session(r.w, u, t, r.w.uds[u].gemini_chat), LAMBDA e :
                 IF e.ret /\ out = "fail" THEN set_state(e.w, u, "NONE")
                 ELSE send_message_to_gemini(
                         IF e.ret THEN start_gemini_chat(e.w, u, t) ELSE e.w,
                         u, out)))

_handle_command_in_flux_mode(w, u, m, t, out) ==
    dispatch_command(clear_flux_data(set_state(w, u, "NONE"), u), u, m, t, out)

handle_flux_prompt_message_handler(w0, u, m, t, out) ==
    IF IsCommand(m)
    THEN _handle_command_in_flux_mode(get_user_data(w0, u, t), u, m, t, out)
    ELSE IF out = "fail"
         THEN clear_flux_data(set_state(get_user_data(w0, u, t), u, "NONE"), u)
         ELSE [get_user_data(w0, u, t) EXCEPT !.uds[u].flux_data = TRUE,
                                              !.uds[u].state = "FLUX_DIMENSIONS"]

\* app.py: handle_unknown_text_main
handle_unknown_text_main(w0, u, m, t, out) ==
    Bind(get_user_data(w0, u, t), LAMBDA w :
         IF w.uds[u].state = "DONATE_CUSTOM_AMOUNT_INPUT" THEN w
         ELSE is_user_blocked(w, u, t).w)

\* ---- the callback handlers that enter or leave a mode ----

\* handle_getid_callbacks_handler with call.data = "getid_forward"
handle_getid_callbacks_handler(w0, u, t, out) ==
    set_state(get_user_data(w0, u, t), u,
              IF out = "fail" THEN "NONE" ELSE "WAITING_FOR_FORWARD")

\* handle_donate_custom_amount_callback; 1 is the id of the prompt message
handle_donate_custom_amount_callback(w0, u, t, out) ==
    IF out = "fail" THEN set_state(get_user_data(w0, u, t), u, "NONE")
    ELSE [get_user_data(w0, u, t) EXCEPT
             !.uds[u].state = "DONATE_CUSTOM_AMOUNT_INPUT",
             !.uds[u].custom_donation_prompt_msg_id = Some(1)]

exit_states ==
    {"GEMINI_MODE", "MISTRAL_MODE", "FLUX_PROMPT", "FLUX_DIMENSIONS",
     "DONATE_CUSTOM_AMOUNT_INPUT", "WAITING_FOR_FORWARD"}

\* the scratch data stop_mode_callback_handler clears for a mode
clear_mode_scratch(w, u, current_state) ==
    CASE current_state \in {"FLUX_PROMPT", "FLUX_DIMENSIONS"} -> clear_flux_data(w, u)
      [] current_state = "DONATE_CUSTOM_AMOUNT_INPUT" ->
            clear_custom_donation_prompt(w, u)
      [] current_state = "WAITING_FOR_FORWARD" ->
            [w EXCEPT !.uds[u].processed_media_group_ids = {}]
      [] OTHER -> w

\* stop_mode_callback_handler that leaves the scratch data of the mode
stop_mode_callback_handler_keeps_scratch(w0, u, t, out) ==
    Bind(get_user_data(w0, u, t), LAMBDA w :
         IF w.uds[u].state \in exit_states THEN set_state(w, u, "NONE") ELSE w)

stop_mode_callback_handler(w0, u, t, out) ==
    Bind(get_user_data(w0, u, t), LAMBDA w :
         IF w.uds[u].state \in exit_states
         THEN set_state(clear_mode_scratch(w, u, w.uds[u].state), u, "NONE")
         ELSE w)

\* ---- app.register_all_handlers: the message handlers in the order they ----
\* ---- are registered; telebot runs the first one whose filters pass     ----
message_handlers ==
    << [kind |-> "command", key |-> "/start"],
       [kind |-> "command", key |-> "/lang"],
       [kind |-> "command", key |-> "/user"],
       [kind |-> "command", key |-> "/getid"],
       [kind |-> "state",   key |-> "WAITING_FOR_FORWARD"],
       [kind |-> "command", key |-> "/rate"],
       [kind |-> "command", key |-> "/addtrusted"],
       [kind |-> "command", key |-> "/removetrusted"],
       [kind |-> "command", key |-> "/ban"],
       [kind |-> "command", key |-> "/unban"],
       [kind |-> "command", key |-> "/donate"],
       [kind |-> "state",   key |-> "DONATE_CUSTOM_AMOUNT_INPUT"],
       [kind |-> "command", key |-> "/paysupport"],
       [kind |-> "command", key |-> "/mistral"],
       [kind |-> "command", key |-> "/new_mistral_chat"],
       [kind |-> "state",   key |-> "MISTRAL_MODE"],
       [kind |-> "command", key |-> "/gemini_menu"],
       [kind |-> "command", key |-> "/model"],
       [kind |-> "command", key |-> "/gemini"],
       [kind |-> "command", key |-> "/new_gemini_chat"],
       [kind |-> "state",   key |-> "GEMINI_MODE"],
       [kind |-> "command", key |-> "/flux"],
       [kind |-> "state",   key |-> "FLUX_PROMPT"],
       [kind |-> "any",     key |-> ""] >>

\* the filters of handler h pass for text message m of a user in state s
test_message_handler(h, m, s) ==
    CASE h.kind = "command" -> m = h.key
      [] h.kind = "state" -> s = h.key
      [] h.kind = "any" -> TRUE

\* the state handlers registered under block_checked
BlockCheckedStates == {"MISTRAL_MODE", "GEMINI_MODE", "FLUX_PROMPT"}

\* the function behind the decorator of the handler a state filter guards
state_function(s, w, u, m, t, out) ==
    CASE s = "WAITING_FOR_FORWARD" -> handle_forwarded_message_handler(w, u, m, t, out)
      [] s = "DONATE_CUSTOM_AMOUNT_INPUT" ->
            handle_donate_custom_amount_input(w, u, m, t, out)
      [] s = "MISTRAL_MODE" -> handle_mistral_mode_message_handler(w, u, m, t, out)
      [] s = "GEMINI_MODE" -> handle_gemini_mode_handler(w, u, m, t, out)
      [] s = "FLUX_PROMPT" -> handle_flux_prompt_message_handler(w, u, m, t, out)

\* the registered, decorated state handler
state_handler(s, w, u, m, t, out) ==
    Bind(IF s \in BlockCheckedStates THEN block_checked(w, u, m, t)
         ELSE [w |-> w, runs |-> TRUE],
         LAMBDA g : IF g.runs THEN state_function(s, g.w, u, m, t, out) ELSE g.w)

\* the first handler, in registration order, whose filters pass
first_handler(m, s) ==
    message_handlers[
        CHOOSE i \in 1..Len(message_handlers) :
           /\ test_message_handler(message_handlers[i], m, s)
           /\ \A j \in 1..(i - 1) :
                 ~test_message_handler(message_handlers[j], m, s)]

\* the handler h run on message m
run_handler(h, w, u, m, t, out) ==
    CASE h.kind = "command" -> command_handler_map(h.key, w, u, t, out)
      [] h.kind = "state" -> state_handler(h.key, w, u, m, t, out)
      [] h.kind = "any" -> handle_unknown_text_main(w, u, m, t, out)

\* telebot's dispatch of one text message: every state filter and every
\* handler starts by fetching the session of the sender
process_new_messages(w0, u, m, t, out) ==
    Bind(get_user_data(w0, u, t), LAMBDA w :
         run_handler(first_handler(m, w.uds[u].state), w, u, m, t, out))

(***************************************************************************)
(* The state machine.                                                      *)
(***************************************************************************)
NoEvent ==
    [op |-> "init", u |-> 0, info |-> "", ret |-> "", log |-> "", flag |-> ""]
\* a returned bool as the event records it
str(b) == IF b THEN "True" ELSE "False"
\* info: the category of a check; for /addtrusted, whether the handler
\* removed a block ("unblocking" is what check_and_unblock_if_trusted logs)
\* log: the line check_rate_limits logs when it finds an expired block;
\* flag: the increment_request_count a check was called with
Event(op, u, info, ret) ==
    [op |-> op, u |-> u, info |-> info, ret |-> ret, log |-> "", flag |-> ""]

\* user u holds a block in the cached session or in the store of world w
HoldsBlock(w, u) ==
    \/ u \in DOMAIN w.uds /\ IsSome(w.uds[u].blocked_until_timestamp)
    \/ u \in DOMAIN w.dbb

\* the workers of the pool the interleavings are built from
Workers == {1, 2}
\* a worker that is inside no call.  pc: the place the worker has reached;
\* u: the user of the call; now: the clock value the call read; obj: the
\* UserData the worker holds when that object is not the one the registry
\* holds for u; local: the list or set the worker has built and not stored
\* yet; ret: what the call returned
IdleWorker ==
    [pc |-> "idle", u |-> 0, now |-> 0, obj |-> None, local |-> None, ret |-> "",
     calls |-> 0]

Init ==
    /\ now = 0
    /\ user_data_store = EmptyDict
    /\ db_user_settings = EmptyDict
    /\ db_blocked_users = EmptyDict
    /\ db_trusted_users = {}
    /\ trusted_users_set_cache = None
    /\ total_daily_requests_rl = <<>>
    /\ ev = NoEvent
    /\ payment_thread = [pc |-> "idle"]
    /\ check_thread = [pc |-> "idle", now |-> 0]
    /\ workers = [i \in Workers |-> IdleWorker]

RegularUsers == Users \ {BOT_OWNER_USER_ID}
Categories == {"general", "rate"}
\* the user the owner commands, the payment and the direct fetches are about
AdminTargets == {2}

Tick(limit) ==
    /\ now < limit
    /\ now' = now + 1
    /\ ev' = Event("tick", 0, "", "")
    /\ UNCHANGED <<user_data_store, db_user_settings, db_blocked_users,
                   db_trusted_users, trusted_users_set_cache,
                   total_daily_requests_rl, payment_thread, check_thread,
                   workers>>

\* check_rate_limits reaches its "block expired. Unblocking." line (47)
block_expired_logged(w0, u, t) ==
    LET w == get_user_data(w0, u, t) IN
    /\ u \notin TRUSTED_USERS_SET(w)
    /\ clear_expired_block(w, u, t) # w

CheckRateLimits(u, cat, inc) ==
    LET r == check_rate_limits(World, u, cat, inc, now) IN
    /\ Commit(r.w)
    /\ ev' = [Event("check_rate_limits", u, cat, str(r.ret)) EXCEPT
                 !.log = IF block_expired_logged(World, u, now)
                         THEN "block expired" ELSE "",
                 !.flag = str(inc)]
    /\ UNCHANGED now

\* info: the key of the text the call sends to the user, if it sends one;
\* log: the line the call logs when it finds an expired block (137)
IsUserBlocked(u) ==
    LET r == is_user_blocked(World, u, now) IN
    /\ Commit(r.w)
    /\ ev' = [Event("is_user_blocked", u,
                    IF r.sent > 0 THEN "user_blocked" ELSE "", str(r.ret))
                 EXCEPT !.log = IF r.w # get_user_data(World, u, now)
                                THEN "block expired" ELSE ""]
    /\ UNCHANGED now

\* info: "unblocking" when the fetch removes a block (its log line says so)
GetUserData(u) ==
    /\ Commit(get_user_data(World, u, now))
    /\ ev' = Event("get_user_data", u,
                   IF HoldsBlock(World, u)
                      /\ ~HoldsBlock(get_user_data(World, u, now), u)
                   THEN "unblocking" ELSE "",
                   "")
    /\ UNCHANGED now

AddTrusted(target) ==
    LET r == add_trusted_command_handler(World, target, now) IN
    /\ Commit(r.w)
    /\ ev' = Event("addtrusted", target,
                   IF HoldsBlock(World, target) /\ ~HoldsBlock(r.w, target)
                   THEN "unblocking" ELSE "",
                   r.ret)
    /\ UNCHANGED now

RemoveTrusted(target) ==
    LET r == remove_trusted_command_handler(World, target, now) IN
    /\ Commit(r.w)
    /\ ev' = Event("removetrusted", target, "", r.ret)
    /\ UNCHANGED now

Ban(target) ==
    LET r == ban_user_command_handler(World, target, now) IN
    /\ Commit(r.w)
    /\ ev' = Event("ban", target, "", r.ret)
    /\ UNCHANGED now

Unban(target) ==
    LET r == unban_user_command_handler(World, target, now) IN
    /\ Commit(r.w)
    /\ ev' = Event("unban", target, "", r.ret)
    /\ UNCHANGED now

SuccessfulPayment(u) ==
    /\ Commit(success_payment_handler(World, u, now))
    /\ ev' = Event("successful_payment", u, "", "")
    /\ UNCHANGED now

\* a process restart: the in-memory structures are lost, the tables stay
Restart ==
    /\ user_data_store' = EmptyDict
    /\ trusted_users_set_cache' = None
    /\ total_daily_requests_rl' = <<>>
    /\ ev' = Event("restart", 0, "", "")
    /\ UNCHANGED <<now, db_user_settings, db_blocked_users, db_trusted_users,
                   payment_thread, check_thread, workers>>

\* One regular user, the owner's commands about that user, payments and
\* restarts.
Next ==
    \/ Tick(MaxTime)
    \/ \E u \in AdminTargets, cat \in Categories, inc \in BOOLEAN :
          CheckRateLimits(u, cat, inc)
    \/ \E u \in AdminTargets : IsUserBlocked(u)
    \/ \E u \in AdminTargets : GetUserData(u)
    \/ \E u \in AdminTargets : AddTrusted(u)
    \/ \E u \in AdminTargets : RemoveTrusted(u)
    \/ \E u \in AdminTargets : Ban(u)
    \/ \E u \in AdminTargets : Unban(u)
    \/ \E u \in AdminTargets : SuccessfulPayment(u)
    \/ Restart

Spec == Init /\ [][Next]_vars

\* Two regular users sharing the global ledger; one of them can be granted
\* and lose trust.
NextQuota ==
    \/ Tick(MaxTimeQuota)
    \/ \E u \in RegularUsers, inc \in BOOLEAN : CheckRateLimits(u, "general", inc)
    \/ \E u \in AdminTargets : AddTrusted(u)
    \/ \E u \in AdminTargets : RemoveTrusted(u)

SpecQuota == Init /\ [][NextQuota]_vars

(***************************************************************************)
(* The conversation of one regular user: text messages dispatched in       *)
(* registration order, the buttons that enter and leave a mode, and the    *)
(* owner banning and unbanning that user.                                  *)
(***************************************************************************)
\* The commands the user sends: one for each place a command handler takes
\* in the registration order and each way a handler treats the mode, and an
\* unknown one.  The texts: a sentence and a valid amount.
Commands ==
    {"/start", "/lang", "/getid", "/ban", "/donate", "/paysupport",
     "/mistral", "/gemini", "/flux", "/unknown"}
Messages == Commands \cup {"hello", "5"}
Buttons == {"getid_forward", "donate_custom", "stop_mode"}

\* the outcomes the handlers of message m tell apart
MessageOutcomes(m) ==
    IF m \in {"/gemini", "hello", "5"} THEN Outcomes
    ELSE IF m \in {"/mistral", "/flux"} THEN {"ok", "fail"}
    ELSE {"ok"}

\* the outcomes the handler of a button tells apart
ButtonOutcomes(data) ==
    IF data = "stop_mode" THEN {"ok"} ELSE {"ok", "fail"}

ReceiveMessage(u, m, out) ==
    /\ Commit(process_new_messages(World, u, m, now, out))
    /\ ev' = Event("message", u, m, out)
    /\ UNCHANGED now

process_new_callback_query(w, u, data, t, out) ==
    CASE data = "getid_forward" -> handle_getid_callbacks_handler(w, u, t, out)
      [] data = "donate_custom" -> handle_donate_custom_amount_callback(w, u, t, out)
      [] data = "stop_mode" -> stop_mode_callback_handler(w, u, t, out)

\* the mode stop_mode_callback_handler names in its log line: the state of
\* the session it fetched
stop_mode_logged_state(w0, u, t) == get_user_data(w0, u, t).uds[u].state

\* ret: the outcome of the sends, and for the stop button the mode the
\* handler logs
ReceiveCallback(u, data, out) ==
    /\ Commit(process_new_callback_query(World, u, data, now, out))
    /\ ev' = Event("callback", u, data,
                   IF data = "stop_mode"
                   THEN stop_mode_logged_state(World, u, now) ELSE out)
    /\ UNCHANGED now

NextSM ==
    \/ Tick(MaxTimeSM)
    \/ \E u \in AdminTargets, m \in Messages : \E out \in MessageOutcomes(m) :
          ReceiveMessage(u, m, out)
    \/ \E u \in AdminTargets, data \in Buttons : \E out \in ButtonOutcomes(data) :
          ReceiveCallback(u, data, out)
    \/ \E u \in AdminTargets : Ban(u)
    \/ \E u \in AdminTargets : Unban(u)

SpecSM == Init /\ [][NextSM]_vars

(***************************************************************************)
(* The life of a manual ban: one regular user who enters a chat mode and   *)
(* talks there, the checks and fetches made for that user, the owner's     *)
(* commands about that user, payments and restarts.                        *)
(***************************************************************************)
BanMessages == {"/mistral", "hello"}

NextBan ==
    \/ Tick(MaxTimeBan)
    \/ \E u \in AdminTargets, m \in BanMessages : ReceiveMessage(u, m, "ok")
    \/ \E u \in AdminTargets : CheckRateLimits(u, "general", TRUE)
    \/ \E u \in AdminTargets : IsUserBlocked(u)
    \/ \E u \in AdminTargets : GetUserData(u)
    \/ \E u \in AdminTargets : AddTrusted(u)
    \/ \E u \in AdminTargets : Ban(u)
    \/ \E u \in AdminTargets : Unban(u)
    \/ \E u \in AdminTargets : SuccessfulPayment(u)
    \/ Restart

SpecBan == Init /\ [][NextBan]_vars

(***************************************************************************)
(* Two workers of the thread pool (core.py: num_threads) on the same user: *)
(* one runs success_payment_handler, the other a general check_rate_limits *)
(* call.  No lock guards the session, the tables or the trusted-set cache, *)
(* so the workers interleave; a step is a run of statements between two    *)
(* calls that wait (a send, a query).  The checks that build the history   *)
(* before the two workers start run alone.                                 *)
(***************************************************************************)
BothIdle == payment_thread.pc = "idle" /\ check_thread.pc = "idle"

\* check_rate_limits lines 38-72: the fetch, the trusted return, the block
\* test, the pruning and the tests; a failed cap adds the violation and
\* sends the limit text, every other outcome ends the call
CheckStart(u) ==
    /\ check_thread.pc = "idle"
    /\ LET w == get_user_data(World, u, now)
           r == check_rate_limits(World, u, "general", TRUE, now)
       IN IF r.key \in CapKeys
          THEN /\ CommitShared(
                     [prune_windows(clear_expired_block(w, u, now), u, now)
                         EXCEPT !.uds[u].violations = @ + 1])
               /\ check_thread' = [pc |-> "limit_sent", now |-> now]
               /\ ev' = Event("check_start", u, "general", "")
          ELSE /\ CommitShared(r.w)
               /\ check_thread' = [pc |-> "done", now |-> now]
               /\ ev' = Event("check_rate_limits", u, "general", str(r.ret))
    /\ UNCHANGED <<now, payment_thread, workers>>

\* handle_limit_violation lines 74-76: the threshold test on the counter as
\* it stands and the block written to the session
CheckEscalate(u) ==
    /\ check_thread.pc = "limit_sent"
    /\ IF World.uds[u].violations >= LIMIT_VIOLATIONS_BEFORE_BLOCK
       THEN /\ CommitShared([World EXCEPT !.uds[u].blocked_until_timestamp =
                   Some(check_thread.now + USER_BLOCK_DURATION_HOURS * HOUR)])
            /\ check_thread' = [check_thread EXCEPT !.pc = "block_in_session"]
            /\ ev' = Event("check_escalate", u, "general", "")
       ELSE /\ CommitShared(World)
            /\ check_thread' = [check_thread EXCEPT !.pc = "done"]
            /\ ev' = Event("check_rate_limits", u, "general", "False")
    /\ UNCHANGED <<now, payment_thread, workers>>

\* handle_limit_violation lines 77-88: the block record, the block text,
\* the reset of the mode and of the contexts
CheckBlockDb(u) ==
    /\ check_thread.pc = "block_in_session"
    /\ CommitShared(reset_chat_histories(
          set_state(block_user_db(World, u,
                       check_thread.now + USER_BLOCK_DURATION_HOURS * HOUR,
                       World.uds[u].violations),
                    u, "NONE"), u))
    /\ check_thread' = [check_thread EXCEPT !.pc = "done"]
    /\ ev' = Event("check_rate_limits", u, "general", "False")
    /\ UNCHANGED <<now, payment_thread, workers>>

\* success_payment_handler lines 278-297: the fetch and the unblock of a
\* session that holds a block
PayStart(u) ==
    /\ payment_thread.pc = "idle"
    /\ LET w == get_user_data(World, u, now)
       IN CommitShared(IF IsSome(w.uds[u].blocked_until_timestamp)
                       THEN unblock(w, u) ELSE w)
    /\ payment_thread' = [pc |-> "unblocked"]
    /\ ev' = Event("pay_start", u, "", "")
    /\ UNCHANGED <<now, check_thread, workers>>

\* lines 299-302: the trust grant and the invalidation of the cache
PayTrust(u) ==
    /\ payment_thread.pc = "unblocked"
    /\ LET w == LoadTrustedCache(World)
       IN CommitShared(IF u \notin TRUSTED_USERS_SET(w)
                       THEN [add_trusted_user_db(w, u) EXCEPT !.cache = None]
                       ELSE w)
    /\ payment_thread' = [pc |-> "trusted"]
    /\ ev' = Event("pay_trust", u, "", "")
    /\ UNCHANGED <<now, check_thread, workers>>

\* line 304 to the end: check_and_unblock_if_trusted and the thanks
PayReconcile(u) ==
    /\ payment_thread.pc = "trusted"
    /\ LET w == LoadTrustedCache(World)
       IN CommitShared(check_and_unblock_if_trusted(w, u, TRUSTED_USERS_SET(w), now))
    /\ payment_thread' = [pc |-> "done"]
    /\ ev' = Event("successful_payment", u, "", "")
    /\ UNCHANGED <<now, check_thread, workers>>

NextRace ==
    \/ Tick(MaxTimeSM)
    \/ \E u \in AdminTargets : BothIdle /\ CheckRateLimits(u, "general", TRUE)
    \/ \E u \in AdminTargets : CheckStart(u)
    \/ \E u \in AdminTargets : CheckEscalate(u)
    \/ \E u \in AdminTargets : CheckBlockDb(u)
    \/ \E u \in AdminTargets : PayStart(u)
    \/ \E u \in AdminTargets : PayTrust(u)
    \/ \E u \in AdminTargets : PayReconcile(u)

SpecRace == Init /\ [][NextRace]_vars

(***************************************************************************)
(* The pool at large: each worker makes one call at a time, a fetch of a   *)
(* session followed by a general check_rate_limits, or a read of           *)
(* settings.TRUSTED_USERS_SET, and stops where the interpreter can switch  *)
(* to another worker: between the membership test of get_user_data and its *)
(* store into the registry, inside the assignment that prunes the global   *)
(* ledger, between the tests of a check and its counting, and between the  *)
(* query of the trusted list and the store into the cache.  Handlers that  *)
(* run from start to end between two such steps (a button of the language  *)
(* keyboard, /addtrusted) are the events of other workers.                 *)
(***************************************************************************)
\* the places of a worker that is inside check_rate_limits
InCheck == {"fetched", "pruned", "passed"}
\* the places of a worker that is inside no call
Returned == {"idle", "done", "counted"}

\* the world as worker i sees it: the session of its user is the object the
\* worker holds
WorkerWorld(i) ==
    IF IsSome(workers[i].obj)
    THEN [World EXCEPT !.uds = Put(@, workers[i].u, Get(workers[i].obj))]
    ELSE World

\* worker i leaves the world it sees as w1 and goes on as rec: what it wrote
\* to a session object the registry does not hold stays with the worker
WorkerCommit(i, w1, rec) ==
    /\ CommitShared(IF IsSome(workers[i].obj)
                    THEN [w1 EXCEPT !.uds = user_data_store] ELSE w1)
    /\ workers' = [workers EXCEPT ![i] =
                      [rec EXCEPT !.obj = IF IsSome(workers[i].obj)
                                          THEN Some(w1.uds[workers[i].u])
                                          ELSE None]]
    /\ UNCHANGED <<now, payment_thread, check_thread>>

\* worker i takes its next call from the queue of the pool
NextCall(i, pc, u) ==
    [IdleWorker EXCEPT !.pc = pc, !.u = u, !.calls = workers[i].calls + 1]

\* get_user_data lines 286-319: for a cached user the whole call; for a user
\* the registry does not hold the reads of the store and the new UserData,
\* which the worker holds and has not stored yet
GetUserDataBegin(i, u) ==
    /\ workers[i].pc \in Returned
    /\ workers[i].calls < MaxCallsPool
    /\ LET w1 == get_user_data(World, u, now) IN
       IF u \in DOMAIN user_data_store
       THEN /\ CommitShared(w1)
            /\ workers' = [workers EXCEPT ![i] =
                              NextCall(i, "fetched", u)]
       ELSE /\ CommitShared([w1 EXCEPT !.uds = user_data_store])
            /\ workers' = [workers EXCEPT ![i] =
                              [NextCall(i, "built", u) EXCEPT
                                  !.obj = Some(w1.uds[u])]]
    /\ ev' = Event("get_user_data_begin", u, "", "")
    /\ UNCHANGED <<now, payment_thread, check_thread>>

\* get_user_data lines 320-322: user_data_store[user_id] = new_user_data;
\* a worker that holds the object the registry held until now keeps it
GetUserDataStore(i) ==
    /\ workers[i].pc = "built"
    /\ LET u == workers[i].u IN
       /\ CommitShared([World EXCEPT !.uds = Put(@, u, Get(workers[i].obj))])
       /\ workers' =
             [j \in Workers |->
                IF j = i THEN [workers[i] EXCEPT !.pc = "fetched", !.obj = None]
                ELSE IF /\ workers[j].u = u
                        /\ workers[j].pc \in InCheck
                        /\ ~IsSome(workers[j].obj)
                        /\ u \in DOMAIN user_data_store
                     THEN [workers[j] EXCEPT !.obj = Some(user_data_store[u])]
                     ELSE workers[j]]
       /\ ev' = Event("get_user_data", u, "", "")
    /\ UNCHANGED <<now, payment_thread, check_thread>>

\* check_rate_limits lines 39-65, up to the list the comprehension of line
\* 65 builds from the global ledger: the trusted return, the block test, the
\* pruning of the session's list, and the pruned copy of the ledger
CheckPrune(i) ==
    /\ workers[i].pc = "fetched"
    /\ LET u == workers[i].u
           wc == LoadTrustedCache(WorkerWorld(i))
       IN IF u \in TRUSTED_USERS_SET(wc)
          THEN /\ WorkerCommit(i, wc, [workers[i] EXCEPT !.pc = "done", !.ret = "True"])
               /\ ev' = Event("check_rate_limits", u, "general", "True")
          ELSE IF stops_at_block(wc, u, now)
          THEN /\ WorkerCommit(i, wc, [workers[i] EXCEPT !.pc = "done", !.ret = "False"])
               /\ ev' = Event("check_rate_limits", u, "general", "False")
          ELSE /\ LET w2 == [clear_expired_block(wc, u, now) EXCEPT
                                 !.uds[u].requests_timestamps =
                                     Filter(@, now - DAY)]
                  IN WorkerCommit(i, w2,
                        [workers[i] EXCEPT
                            !.pc = "pruned", !.now = now,
                            !.local = Some(Filter(w2.ledger, now - DAY))])
               /\ ev' = Event("check_prune", u, "general", "")

\* check_rate_limits from the store of line 65 to line 113: the pruned copy
\* becomes the global ledger, then the caps and the cooldown are tested; a
\* refusal ends the call
CheckTests(i) ==
    /\ workers[i].pc = "pruned"
    /\ LET u == workers[i].u
           r == quota_checks([WorkerWorld(i) EXCEPT !.ledger = Get(workers[i].local)],
                             u, FALSE, workers[i].now)
       IN /\ WorkerCommit(i, r.w,
                IF r.ret THEN [workers[i] EXCEPT !.pc = "passed", !.local = None]
                ELSE [workers[i] EXCEPT !.pc = "done", !.local = None,
                                        !.ret = "False"])
          /\ ev' = Event(IF r.ret THEN "check_tests" ELSE "check_rate_limits",
                         u, "general", IF r.ret THEN "" ELSE "False")

\* check_rate_limits lines 115-122 with increment_request_count = True
CheckCount(i) ==
    /\ workers[i].pc = "passed"
    /\ LET u == workers[i].u
           t == workers[i].now
       IN /\ WorkerCommit(i,
                [WorkerWorld(i) EXCEPT
                    !.uds[u].requests_timestamps = Append(@, t),
                    !.ledger = Append(@, t),
                    !.uds[u].last_request_timestamp = Some(t)],
                [workers[i] EXCEPT !.pc = "counted", !.ret = "True"])
          /\ ev' = Event("check_rate_limits", u, "general", "True")

\* TRUSTED_USERS_SET lines 125-146: a cache that is filled is returned; for
\* an empty one the worker queries the trusted list and builds the set
TrustedSetRead(i) ==
    /\ workers[i].pc \in Returned
    /\ workers[i].calls < MaxCallsPool
    /\ workers' = [workers EXCEPT ![i] =
                      IF IsSome(trusted_users_set_cache)
                      THEN NextCall(i, "done", 0)
                      ELSE [NextCall(i, "set_built", 0) EXCEPT
                               !.local = Some(db_trusted_users
                                                 \cup ENV_TRUSTED_USERS
                                                 \cup {BOT_OWNER_USER_ID})]]
    /\ ev' = Event("trusted_users_set_read", 0, "", "")
    /\ UNCHANGED <<now, user_data_store, db_user_settings, db_blocked_users,
                   db_trusted_users, trusted_users_set_cache,
                   total_daily_requests_rl, payment_thread, check_thread>>

\* TRUSTED_USERS_SET lines 148-150: the set the worker built becomes the cache
TrustedSetStore(i) ==
    /\ workers[i].pc = "set_built"
    /\ CommitShared([World EXCEPT !.cache = workers[i].local])
    /\ workers' = [workers EXCEPT ![i] =
                      [workers[i] EXCEPT !.pc = "done", !.local = None]]
    /\ ev' = Event("trusted_users_set", 0, "", "")
    /\ UNCHANGED <<now, payment_thread, check_thread>>

(***************************************************************************)
(* The store failing: one regular user whose language and model are set,   *)
(* who is checked, banned and trusted and whose session is lost in         *)
(* restarts, and the same calls made while the database does not answer.   *)
(***************************************************************************)
\* the buttons of the language and of the model keyboard
SettingButtons ==
    {<<"set_language", c>> : c \in LANGUAGES}
       \cup {<<"set_model", m>> : m \in AVAILABLE_MODELS}

\* info: the data of the button
SetSetting(u, button) ==
    /\ Commit(IF button[1] = "set_language"
              THEN set_language_callback_handler(World, u, button[2], now)
              ELSE set_model_callback_handler(World, u, button[2], now))
    /\ ev' = Event(button[1], u, button[2], "")
    /\ UNCHANGED now

\* "load_settings" is a get_user_data call in which the query of the
\* settings row fails and every later query and write succeeds
FailingCalls ==
    {"get_user_data", "check_rate_limits", "is_user_blocked", "load_settings"}

\* a call made while the database does not answer; log: the error line the
\* failing query logs
StoreFailure(u, call) ==
    LET down == [World EXCEPT !.up = FALSE]
        r == CASE call = "get_user_data" ->
                     [w |-> get_user_data(down, u, now), ret |-> ""]
               [] call = "check_rate_limits" ->
                     Bind(check_rate_limits(down, u, "general", TRUE, now),
                          LAMBDA c : [w |-> c.w, ret |-> str(c.ret)])
               [] call = "is_user_blocked" ->
                     Bind(is_user_blocked(down, u, now),
                          LAMBDA c : [w |-> c.w, ret |-> str(c.ret)])
               [] call = "load_settings" ->
                     [w |-> get_user_data([World EXCEPT !.loads = FALSE], u, now),
                      ret |-> ""]
    IN /\ Commit(r.w)
       /\ ev' = [Event(IF call = "load_settings" THEN "get_user_data" ELSE call,
                       u, IF call = "check_rate_limits" THEN "general" ELSE "",
                       r.ret)
                    EXCEPT !.log = IF call = "load_settings"
                                   THEN "load error" ELSE "store error",
                           !.flag = IF call = "check_rate_limits" THEN "True" ELSE ""]
       /\ UNCHANGED now

NextFail ==
    \/ Tick(MaxTimeSM)
    \/ \E u \in AdminTargets : CheckRateLimits(u, "general", TRUE)
    \/ \E u \in AdminTargets, button \in SettingButtons : SetSetting(u, button)
    \/ \E u \in AdminTargets : AddTrusted(u)
    \/ \E u \in AdminTargets : Ban(u)
    \/ \E u \in AdminTargets, call \in FailingCalls : StoreFailure(u, call)
    \/ Restart

SpecFail == Init /\ [][NextFail]_vars

\* the pool at large with the language keyboard and /addtrusted beside it
\* the buttons of the language keyboard
LanguageButtons == {<<"set_language", c>> : c \in LANGUAGES}

NextPool ==
    \/ Tick(MaxTimePool)
    \/ \E i \in Workers, u \in RegularUsers : GetUserDataBegin(i, u)
    \/ \E i \in Workers : GetUserDataStore(i)
    \/ \E i \in Workers : CheckPrune(i)
    \/ \E i \in Workers : CheckTests(i)
    \/ \E i \in Workers : CheckCount(i)
    \/ \E i \in Workers : TrustedSetRead(i)
    \/ \E i \in Workers : TrustedSetStore(i)
    \/ \E u \in AdminTargets, button \in LanguageButtons : SetSetting(u, button)
    \/ \E u \in AdminTargets : AddTrusted(u)

SpecPool == Init /\ [][NextPool]_vars

(***************************************************************************)
(* The owner's commands as the owner types them: with and without an       *)
(* identifier, with a text that is no number, aimed at the owner and at two *)
(* regular users whose checks fill sessions and raise escalation blocks.   *)
(***************************************************************************)
OwnerCommands == {"/addtrusted", "/removetrusted", "/ban", "/unban"}
OwnerArguments == {"abc", "1", "2", "3"}
OwnerMessages ==
    {<<c>> : c \in OwnerCommands}
       \cup {<<c, a>> : c \in OwnerCommands, a \in OwnerArguments}

\* u: the user the command names, 0 when it names none; info: the command;
\* flag: the text after the command, "" when there is none
OwnerCommand(parts) ==
    LET r == owner_handlers(World, parts, now) IN
    /\ Commit(r.w)
    /\ ev' = [Event("owner_command",
                    IF Len(parts) >= 2 /\ IsSome(int(parts[2]))
                    THEN Get(int(parts[2])) ELSE 0,
                    parts[1], r.ret)
                 EXCEPT !.flag = IF Len(parts) >= 2 THEN parts[2] ELSE ""]
    /\ UNCHANGED now

NextAdmin ==
    \/ Tick(MaxTimeSM)
    \/ \E parts \in OwnerMessages : OwnerCommand(parts)
    \/ \E u \in RegularUsers : CheckRateLimits(u, "general", TRUE)

SpecAdmin == Init /\ [][NextAdmin]_vars

(***************************************************************************)
(* Observations the properties are stated with.                            *)
(***************************************************************************)
\* user_id in settings.TRUSTED_USERS_SET, as the next read of it answers
Trusted(u) == u \in TRUSTED_USERS_SET(World)

\* the session of user u: the cached one as it stands, or the one
\* get_user_data builds for a user the registry does not hold
Session(u) ==
    IF u \in DOMAIN user_data_store THEN user_data_store[u]
    ELSE get_user_data(World, u, now).uds[u]

\* the fields of the session and the ledger a rate check counts with
SameCounters(u) ==
    /\ Session(u)'.requests_timestamps = Session(u).requests_timestamps
    /\ Session(u)'.last_request_timestamp = Session(u).last_request_timestamp
    /\ Session(u)'.last_rate_request_timestamp = Session(u).last_rate_request_timestamp
    /\ total_daily_requests_rl' = total_daily_requests_rl

\* the step is a check_rate_limits call of user u (any category, any flag)
Checked(u) == ev'.op = "check_rate_limits" /\ ev'.u = u

\* the step is a check_rate_limits call of user u for a general request
CheckedGeneral(u) == Checked(u) /\ ev'.info = "general"

(***************************************************************************)
(* C1                                                                      *)
(***************************************************************************)
\* C1 as stated: for a trusted user check_rate_limits returns true for every
\* category and increment flag, leaves the request list, the last-request
\* and last-rate-request timestamps and the global ledger unchanged and
\* never increases the violation counter.
C1_TrustedCheckNeverIncreases ==
    [][\A u \in Users :
          (Trusted(u) /\ Checked(u)) =>
              /\ ev'.ret = "True"
              /\ SameCounters(u)
              /\ Session(u)'.violations <= Session(u).violations]_vars

\* What does hold of a trusted user's check: it returns true for every
\* category and increment flag and leaves the request list, both timestamps
\* and the global ledger unchanged; the violation counter stays as it is
\* unless the session carried a block, and then the fetch resets it to 0
\* (which raises the -1 of a manual ban to 0).
C1_TrustedCheckPasses ==
    [][\A u \in Users :
          (Trusted(u) /\ Checked(u)) =>
              /\ ev'.ret = "True"
              /\ SameCounters(u)
              /\ Session(u)'.violations =
                    IF IsSome(Session(u).blocked_until_timestamp)
                    THEN 0 ELSE Session(u).violations]_vars

\* a trusted user with a request history has just been checked and passed
C1_Witness ==
    /\ ev.op = "check_rate_limits" /\ ev.ret = "True"
    /\ ev.u # BOT_OWNER_USER_ID /\ Trusted(ev.u)
    /\ Len(Session(ev.u).requests_timestamps) > 0

(***************************************************************************)
(* C2                                                                      *)
(***************************************************************************)
\* the step is one of the operations C2 ranges over, made for user u
TrustedLoadStep(u) ==
    /\ ev'.op \in {"check_rate_limits", "is_user_blocked", "get_user_data", "ban"}
    /\ ev'.u = u
    /\ Trusted(u) /\ Trusted(u)'

\* C2 as stated: while a user stays trusted, over check_rate_limits,
\* is_user_blocked, get_user_data and manual-ban operations the violation
\* counter never increases, is_user_blocked never returns true and
\* check_rate_limits never returns false.
C2_TrustedNeverIncreases ==
    [][\A u \in Users :
          TrustedLoadStep(u) =>
              /\ Session(u)'.violations <= Session(u).violations
              /\ ev'.op = "is_user_blocked" => ev'.ret = "False"
              /\ ev'.op = "check_rate_limits" => ev'.ret = "True"]_vars

\* What does hold while a user stays trusted: over the same operations the
\* violation counter never increases except that the -1 a manual ban wrote
\* is reset to 0 by the next fetch; is_user_blocked never returns true and
\* check_rate_limits never returns false.
C2_TrustedNeverAccumulates ==
    [][\A u \in Users :
          TrustedLoadStep(u) =>
              /\ \/ Session(u)'.violations <= Session(u).violations
                 \/ Session(u).violations = MANUAL_BAN /\ Session(u)'.violations = 0
              /\ ev'.op = "is_user_blocked" => ev'.ret = "False"
              /\ ev'.op = "check_rate_limits" => ev'.ret = "True"]_vars

\* the owner has just banned a trusted user: the cached session carries the
\* ban although the user is trusted
C2_Witness ==
    /\ ev.op = "ban" /\ ev.ret = "success" /\ Trusted(ev.u)
    /\ Session(ev.u).violations = MANUAL_BAN
    /\ IsSome(Session(ev.u).blocked_until_timestamp)

(***************************************************************************)
(* C3                                                                      *)
(***************************************************************************)
\* no block of the session is still running
NotActivelyBlocked(u) ==
    \/ ~IsSome(Session(u).blocked_until_timestamp)
    \/ now >= Get(Session(u).blocked_until_timestamp)

\* the cooldown since the last allowed request has passed
CooldownOver(u) ==
    \/ ~IsSome(Session(u).last_request_timestamp)
    \/ now - Get(Session(u).last_request_timestamp) >= REQUEST_COOLDOWN_SECONDS

\* the user is below the per-minute, per-user daily and global daily caps
BelowCaps(u) ==
    /\ Len(Filter(Session(u).requests_timestamps, now - MINUTE)) < MAX_REQUESTS_PER_MINUTE
    /\ Len(Filter(Session(u).requests_timestamps, now - DAY)) < MAX_REQUESTS_PER_USER_PER_DAY
    /\ Len(Filter(total_daily_requests_rl, now - DAY)) < MAX_REQUESTS_PER_DAY

\* C3: a general request of a non-trusted user with no running block, made
\* at least the cooldown after the previous allowed request and below the
\* per-minute, per-user daily and global daily caps, returns true, and a
\* violation counter of 0 stays 0.
C3_UnderThresholdsPasses ==
    [][\A u \in Users :
          (CheckedGeneral(u) /\ ~Trusted(u) /\ NotActivelyBlocked(u)
              /\ CooldownOver(u) /\ BelowCaps(u)) =>
              /\ ev'.ret = "True"
              /\ Session(u).violations = 0 => Session(u)'.violations = 0]_vars

\* a non-trusted user has made several requests, every one allowed
C3_Witness ==
    /\ ev.op = "check_rate_limits" /\ ev.info = "general" /\ ev.ret = "True"
    /\ ~Trusted(ev.u)
    /\ Len(Session(ev.u).requests_timestamps) = MAX_REQUESTS_PER_USER_PER_DAY
    /\ Session(ev.u).violations = 0

(***************************************************************************)
(* C4                                                                      *)
(***************************************************************************)
\* the block the store holds for u, as get_blocked_user_info_db reads it
StoredBlock(u) == get_blocked_user_info_db(World, u)

\* the step is a general check that took u's violation counter to the threshold
Escalated(u) ==
    /\ CheckedGeneral(u)
    /\ Session(u)'.violations > Session(u).violations
    /\ Session(u)'.violations >= LIMIT_VIOLATIONS_BEFORE_BLOCK

\* blocked-until is the time of the violation plus the block duration, in
\* the session and in the store
BlockedForDuration(u) ==
    /\ Session(u)'.blocked_until_timestamp = Some(now + USER_BLOCK_DURATION_HOURS * HOUR)
    /\ IsSome(StoredBlock(u)')
    /\ Get(StoredBlock(u)').until = now + USER_BLOCK_DURATION_HOURS * HOUR

\* the step is a general check of a non-trusted user whose session holds a
\* block, made d seconds after blocked-until
CheckedAround(u, d) ==
    /\ CheckedGeneral(u) /\ ~Trusted(u)
    /\ IsSome(Session(u).blocked_until_timestamp)
    /\ now = Get(Session(u).blocked_until_timestamp) + d

NoBlockLeft(u) ==
    /\ ~IsSome(Session(u)'.blocked_until_timestamp)
    /\ ~IsSome(StoredBlock(u)')

\* C4 as stated: when a non-trusted user's violation counter reaches the
\* threshold, blocked-until is the time of that violation plus the block
\* duration; a general request 1 s before blocked-until returns false; a
\* general request 1 s after blocked-until returns true and leaves no block
\* in the cached session or in the store.
C4_RequestAfterExpiryPasses ==
    [][\A u \in Users :
          /\ Escalated(u) => BlockedForDuration(u)
          /\ CheckedAround(u, -1) => ev'.ret = "False"
          /\ CheckedAround(u, 1) => ev'.ret = "True" /\ NoBlockLeft(u)]_vars

\* C4 amended: blocked-until is the time of the escalating violation plus
\* the block duration and a general request 1 s before it returns false; a
\* general request 1 s after it clears the expired block and is then decided
\* by the quota checks like any other request: it returns true exactly when
\* the user is past the cooldown and below the per-minute, per-user daily
\* and global daily caps, and then no block is left in the cached session or
\* in the store.
C4_BlockRunsForDuration ==
    [][\A u \in Users :
          /\ Escalated(u) => BlockedForDuration(u)
          /\ CheckedAround(u, -1) => ev'.ret = "False"
          /\ CheckedAround(u, 1) =>
                /\ ev'.ret = "True" <=> (CooldownOver(u) /\ BelowCaps(u))
                /\ ev'.ret = "True" => NoBlockLeft(u)]_vars

\* a request made 1 s before the end of an escalation block has just been
\* refused
C4_Witness ==
    /\ ev.op = "check_rate_limits" /\ ev.info = "general" /\ ev.ret = "False"
    /\ ~Trusted(ev.u)
    /\ Session(ev.u).violations >= LIMIT_VIOLATIONS_BEFORE_BLOCK
    /\ Session(ev.u).blocked_until_timestamp = Some(now + 1)
    /\ IsSome(StoredBlock(ev.u))

(***************************************************************************)
(* C5                                                                      *)
(***************************************************************************)
\* the requests of u counted inside the trailing minute
RequestsLastMinute(u) == Len(Filter(Session(u).requests_timestamps, now - MINUTE))

\* C5: when MAX_REQUESTS_PER_MINUTE allowed, counted general requests of a
\* non-trusted user with no block lie inside the trailing minute, the user's
\* next general request returns false and adds exactly 1 to the violation
\* counter.
C5_PerMinuteCapRefuses ==
    [][\A u \in Users :
          (CheckedGeneral(u) /\ ~Trusted(u)
              /\ ~IsSome(Session(u).blocked_until_timestamp)
              /\ RequestsLastMinute(u) >= MAX_REQUESTS_PER_MINUTE) =>
              /\ ev'.ret = "False"
              /\ Session(u)'.violations = Session(u).violations + 1]_vars

\* a request has just been refused by the per-minute cap alone: the user is
\* below both daily caps and holds the first violation
C5_Witness ==
    /\ ev.op = "check_rate_limits" /\ ev.info = "general" /\ ev.ret = "False"
    /\ ~Trusted(ev.u)
    /\ RequestsLastMinute(ev.u) = MAX_REQUESTS_PER_MINUTE
    /\ Len(Session(ev.u).requests_timestamps) < MAX_REQUESTS_PER_USER_PER_DAY
    /\ Len(total_daily_requests_rl) < MAX_REQUESTS_PER_DAY
    /\ Session(ev.u).violations = 1

(***************************************************************************)
(* C6                                                                      *)
(***************************************************************************)
\* the step is a general check of a non-trusted user with no block, made
\* less than the cooldown after the last allowed request and below the caps
CheckedInCooldown(u) ==
    /\ CheckedGeneral(u) /\ ~Trusted(u)
    /\ ~IsSome(Session(u).blocked_until_timestamp)
    /\ ~CooldownOver(u) /\ BelowCaps(u)

\* C6 as stated: a general request of a non-trusted user made less than the
\* cooldown after the previous allowed request, below all three caps,
\* returns false because of the cooldown and leaves the violation counter,
\* the request list, the global ledger and the last-request timestamp
\* unchanged.
C6_CooldownChangesNothing ==
    [][\A u \in Users :
          CheckedInCooldown(u) =>
              /\ ev'.ret = "False"
              /\ Session(u)'.violations = Session(u).violations
              /\ Session(u)'.requests_timestamps = Session(u).requests_timestamps
              /\ total_daily_requests_rl' = total_daily_requests_rl
              /\ Session(u)'.last_request_timestamp = Session(u).last_request_timestamp]_vars

\* C6 amended: such a request returns false because of the cooldown, leaves
\* the violation counter and the last-request timestamp unchanged and adds
\* nothing to the request list or the global ledger; both lists are pruned
\* of the timestamps that are 24 h old or older before the cooldown is
\* tested.
C6_CooldownOnlyPrunes ==
    [][\A u \in Users :
          CheckedInCooldown(u) =>
              /\ ev'.ret = "False"
              /\ Session(u)'.violations = Session(u).violations
              /\ Session(u)'.requests_timestamps =
                    Filter(Session(u).requests_timestamps, now - DAY)
              /\ total_daily_requests_rl' = Filter(total_daily_requests_rl, now - DAY)
              /\ Session(u)'.last_request_timestamp = Session(u).last_request_timestamp]_vars

\* a request has just been refused by the cooldown at a time when the lists
\* hold timestamps that fall out of the 24 h window
C6_Witness ==
    /\ ev.op = "check_rate_limits" /\ ev.info = "general" /\ ev.ret = "False"
    /\ ~Trusted(ev.u)
    /\ ~IsSome(Session(ev.u).blocked_until_timestamp)
    /\ Session(ev.u).violations = 0
    /\ ~CooldownOver(ev.u)
    /\ now >= DAY

(***************************************************************************)
(* C7                                                                      *)
(***************************************************************************)
\* the global ledger pruned to the trailing 24 h is full
LedgerFull == Len(Filter(total_daily_requests_rl, now - DAY)) >= MAX_REQUESTS_PER_DAY

\* C7: while the global ledger pruned to the trailing 24 h holds at least
\* MAX_REQUESTS_PER_DAY timestamps, a general check of a non-trusted user
\* with no block returns false and adds exactly 1 to that user's violation
\* counter, whatever the user's own request list holds; a check of a trusted
\* user adds nothing to the ledger.
C7_GlobalCapRefuses ==
    [][\A u \in Users :
          /\ (CheckedGeneral(u) /\ ~Trusted(u)
                 /\ ~IsSome(Session(u).blocked_until_timestamp) /\ LedgerFull) =>
                 /\ ev'.ret = "False"
                 /\ Session(u)'.violations = Session(u).violations + 1
          /\ (Checked(u) /\ Trusted(u)) =>
                 total_daily_requests_rl' = total_daily_requests_rl]_vars

\* a user who is below the own daily and per-minute caps has just been
\* refused because the requests of the other user fill the ledger
C7_Witness ==
    /\ ev.op = "check_rate_limits" /\ ev.info = "general" /\ ev.ret = "False"
    /\ ~Trusted(ev.u)
    /\ LedgerFull
    /\ Len(Session(ev.u).requests_timestamps) < MAX_REQUESTS_PER_MINUTE
    /\ Session(ev.u).violations = 1

(***************************************************************************)
(* C8                                                                      *)
(***************************************************************************)
\* what the next check_rate_limits call of u returns, for every category
\* and increment flag, and what the next is_user_blocked call returns
NextCheckPasses(u) ==
    \A cat \in Categories, inc \in BOOLEAN :
        check_rate_limits(World, u, cat, inc, now).ret
NextBlockedAnswer(u) == is_user_blocked(World, u, now).ret

\* C8: after /addtrusted completes for a user who is blocked (not trusted,
\* with a block that is still running), the block is absent from the cached
\* session and from the store, the user's next check_rate_limits call
\* returns true and is_user_blocked returns false.
C8_TrustGrantClearsBlock ==
    [][\A u \in Users :
          (ev'.op = "addtrusted" /\ ev'.u = u
              /\ ~Trusted(u) /\ ~NotActivelyBlocked(u)) =>
              /\ ev'.ret = "success"
              /\ NoBlockLeft(u)
              /\ NextCheckPasses(u)'
              /\ ~NextBlockedAnswer(u)']_vars

\* /addtrusted has just removed the block of the user it made trusted
C8_Witness ==
    /\ ev.op = "addtrusted" /\ ev.ret = "success" /\ ev.info = "unblocking"
    /\ Trusted(ev.u)
    /\ ~HoldsBlock(World, ev.u)

(***************************************************************************)
(* C9                                                                      *)
(***************************************************************************)
\* the process after a restart: the registry, the trusted-set cache and the
\* ledger are gone, the tables are kept
Restarted(w) == [w EXCEPT !.uds = EmptyDict, !.cache = None, !.ledger = <<>>]

\* the session a fetch of u yields right after a restart
SessionAfterRestart(u) == get_user_data(Restarted(World), u, now).uds[u]

\* C9: discarding the registry while keeping the store and then fetching a
\* user yields a session with the language and model the session had before
\* and, for a non-trusted user whose session held a running block, with the
\* blocked-until timestamp and violation count of that block, whatever
\* sequence of escalations, manual bans and trust changes left the block.
C9_RestartKeepsSettingsAndBlocks ==
    \A u \in DOMAIN user_data_store :
        LET before == user_data_store[u]
            after == SessionAfterRestart(u)
        IN /\ after.language = before.language
           /\ after.gemini_model = before.gemini_model
           /\ (~Trusted(u) /\ ~NotActivelyBlocked(u)) =>
                 /\ after.blocked_until_timestamp = before.blocked_until_timestamp
                 /\ after.violations = before.violations

(***************************************************************************)
(* C10                                                                     *)
(***************************************************************************)
\* the mode of a session and the scratch data of the modes
ModeFields(s) ==
    [state |-> s.state,
     flux_data |-> s.flux_data,
     custom_donation_prompt_msg_id |-> s.custom_donation_prompt_msg_id,
     processed_media_group_ids |-> s.processed_media_group_ids]

\* user u, in a mode other than NONE, sends a recognized command
CommandInMode(u) ==
    /\ ev'.op = "message"
    /\ ev'.u = u
    /\ ev'.info \in RecognizedCommands
    /\ Session(u).state # "NONE"

\* the session the same command leaves when its handler runs on the session
\* put back to NONE with the scratch data of its mode cleared
CommandFromIdle(u, c, out) ==
    Bind(get_user_data(World, u, now), LAMBDA w :
         dispatch_command(
            set_state(clear_mode_scratch(w, u, w.uds[u].state), u, "NONE"),
            u, c, now, out).uds[u])

\* C10: a recognized command received in a mode other than NONE, whatever the
\* mode and the command, puts the session back to NONE and clears the scratch
\* data of that mode before the handler of the command runs: the mode and the
\* scratch data after the message are what the handler leaves when it starts
\* from that cleared session.
C10_CommandReturnsToIdle ==
    [][\A u \in AdminTargets :
          CommandInMode(u) =>
             ModeFields(user_data_store'[u])
                = ModeFields(CommandFromIdle(u, ev'.info, ev'.ret))]_vars

\* What does hold: a command that reaches the handler of the mode, because no
\* handler registered earlier takes it, leaves the mode and the scratch data
\* as C10 says.
C10_ModeHandlerReturnsToIdle ==
    [][\A u \in AdminTargets :
          (/\ CommandInMode(u)
           /\ first_handler(ev'.info, Session(u).state).kind = "state")
          => ModeFields(user_data_store'[u])
                = ModeFields(CommandFromIdle(u, ev'.info, ev'.ret))]_vars

(***************************************************************************)
(* C11                                                                     *)
(***************************************************************************)
\* the step is user u pressing the stop button
StopPressed(u) == ev'.op = "callback" /\ ev'.u = u /\ ev'.info = "stop_mode"

\* session s taken out of its mode: the state NONE and the scratch data of
\* the mode s was in cleared, every other field as it was
ModeCleared(s) ==
    [s EXCEPT !.state = "NONE",
              !.flux_data =
                  IF s.state \in {"FLUX_PROMPT", "FLUX_DIMENSIONS"} THEN FALSE ELSE @,
              !.custom_donation_prompt_msg_id =
                  IF s.state = "DONATE_CUSTOM_AMOUNT_INPUT" THEN None ELSE @,
              !.processed_media_group_ids =
                  IF s.state = "WAITING_FOR_FORWARD" THEN {} ELSE @]

\* pressing the stop button now would leave u in NONE
StopLeadsToIdle(u) ==
    stop_mode_callback_handler(World, u, now, "ok").uds[u].state = "NONE"

\* C11: the stop button pressed in any mode other than NONE sets the mode to
\* NONE, clears the scratch data of that mode and does nothing else (the
\* rest of the session, the ledger and the block and trust tables stay as
\* they were), so NONE is one step away from every mode; pressed in NONE it
\* leaves the session as it was.
C11_StopReturnsToIdle ==
    /\ [](\A u \in AdminTargets : StopLeadsToIdle(u))
    /\ [][\A u \in AdminTargets :
            StopPressed(u) =>
               /\ Session(u).state # "NONE" =>
                     /\ Session(u)'.state = "NONE"
                     /\ Session(u)' = ModeCleared(Session(u))
               /\ Session(u).state = "NONE" => Session(u)' = Session(u)
               /\ UNCHANGED <<total_daily_requests_rl, db_blocked_users,
                              db_trusted_users>>]_vars

\* the stop button has just taken a user out of the mode that waits for the
\* image dimensions, where a prompt was pending
C11_Witness ==
    /\ ev.op = "callback" /\ ev.info = "stop_mode" /\ ev.ret = "FLUX_DIMENSIONS"
    /\ Session(ev.u).state = "NONE"
    /\ ~Session(ev.u).flux_data

(***************************************************************************)
(* C12                                                                     *)
(***************************************************************************)
\* the text of the refusal a general check of u would send now; the flag
\* has no part in it
RefusalKey(u, inc) == check_rate_limits(World, u, "general", inc, now).key

\* the first test that fails in the order global daily cap, per-user daily
\* cap, per-minute cap, cooldown; "" when none fails
FirstFailing(u) ==
    IF LedgerFull THEN "rate_limit_total_daily"
    ELSE IF Len(Filter(Session(u).requests_timestamps, now - DAY))
               >= MAX_REQUESTS_PER_USER_PER_DAY
    THEN "rate_limit_daily"
    ELSE IF RequestsLastMinute(u) >= MAX_REQUESTS_PER_MINUTE THEN "rate_limit_minute"
    ELSE IF ~CooldownOver(u) THEN "rate_limit_cooldown"
    ELSE ""

\* C12: a general check of a non-trusted user with no block tests the global
\* daily cap, the per-user daily cap, the per-minute cap and the cooldown in
\* this order and stops at the first that fails: the refusal it sends is
\* that of the first failing test, it returns true exactly when none fails,
\* and it adds one violation when the first failing test is a cap (also when
\* the cooldown fails as well) and none otherwise.
C12_FirstFailingTestDecides ==
    [][\A u \in Users :
          (CheckedGeneral(u) /\ ~Trusted(u)
              /\ ~IsSome(Session(u).blocked_until_timestamp)) =>
              /\ \A inc \in BOOLEAN : RefusalKey(u, inc) = FirstFailing(u)
              /\ ev'.ret = "True" <=> FirstFailing(u) = ""
              /\ Session(u)'.violations =
                    Session(u).violations
                       + (IF FirstFailing(u) \in CapKeys THEN 1 ELSE 0)]_vars

\* a check made inside the cooldown with the per-minute cap reached has just
\* been refused and has recorded the first violation
C12_Witness ==
    /\ ev.op = "check_rate_limits" /\ ev.info = "general" /\ ev.ret = "False"
    /\ ~Trusted(ev.u)
    /\ RequestsLastMinute(ev.u) >= MAX_REQUESTS_PER_MINUTE
    /\ ~CooldownOver(ev.u)
    /\ Session(ev.u).violations = 1
    /\ ~IsSome(Session(ev.u).blocked_until_timestamp)

(***************************************************************************)
(* C13                                                                     *)
(***************************************************************************)
\* C13: while now < blocked-until for a non-trusted user, check_rate_limits
\* returns false for every category and flag and changes nothing: the
\* violation counter, blocked-until, the request list, the global ledger and
\* both last-request timestamps stay as they were, and so does the block
\* record of the store.
C13_BlockedCheckChangesNothing ==
    [][\A u \in Users :
          (Checked(u) /\ ~Trusted(u) /\ ~NotActivelyBlocked(u)) =>
              /\ ev'.ret = "False"
              /\ SameCounters(u)
              /\ Session(u)'.violations = Session(u).violations
              /\ Session(u)'.blocked_until_timestamp =
                    Session(u).blocked_until_timestamp
              /\ StoredBlock(u)' = StoredBlock(u)]_vars

\* a rate request made during an escalation block has just been refused
C13_Witness ==
    /\ ev.op = "check_rate_limits" /\ ev.info = "rate" /\ ev.ret = "False"
    /\ ~Trusted(ev.u)
    /\ ~NotActivelyBlocked(ev.u)
    /\ Session(ev.u).violations = LIMIT_VIOLATIONS_BEFORE_BLOCK
    /\ Len(Session(ev.u).requests_timestamps) > 0

(***************************************************************************)
(* C14                                                                     *)
(***************************************************************************)
\* the step is a check of a non-trusted user whose session holds a block
\* that is over
ExpiredBlockFound(u) ==
    /\ Checked(u) /\ ~Trusted(u)
    /\ IsSome(Session(u).blocked_until_timestamp)
    /\ now >= Get(Session(u).blocked_until_timestamp)

\* the cooldown of the rate category has passed
RateCooldownOver(u) ==
    \/ ~IsSome(Session(u).last_rate_request_timestamp)
    \/ now - Get(Session(u).last_rate_request_timestamp) >= RATE_COOLDOWN

\* C14: a check_rate_limits call made with now >= blocked-until removes the
\* block from the cached session and from the store and resets the violation
\* counter to 0 before the tests of that call, so the tests alone decide the
\* call: a general check passes exactly when no cap and no cooldown fails
\* and ends with the counter at 1 when a cap fails and at 0 otherwise, a
\* rate check passes exactly when its cooldown is over and ends with the
\* counter at 0, and no block is left unless that one violation is the
\* threshold.
C14_ExpiredBlockClearedBeforeTests ==
    [][\A u \in Users :
          ExpiredBlockFound(u) =>
              /\ ev'.log = "block expired"
              /\ ev'.info = "general" =>
                    /\ ev'.ret = "True" <=> FirstFailing(u) = ""
                    /\ Session(u)'.violations =
                          IF FirstFailing(u) \in CapKeys THEN 1 ELSE 0
              /\ ev'.info = "rate" =>
                    /\ ev'.ret = "True" <=> RateCooldownOver(u)
                    /\ Session(u)'.violations = 0
              /\ Session(u)'.violations < LIMIT_VIOLATIONS_BEFORE_BLOCK =>
                    NoBlockLeft(u)]_vars

\* a check that found an expired block has just been refused by a cap: the
\* counter the block had filled stands at 1 and no block is left
C14_Witness ==
    /\ ev.op = "check_rate_limits" /\ ev.log = "block expired"
    /\ ev.ret = "False"
    /\ ~Trusted(ev.u)
    /\ Session(ev.u).violations = 1
    /\ ~IsSome(Session(ev.u).blocked_until_timestamp)
    /\ ~IsSome(StoredBlock(ev.u))

(***************************************************************************)
(* C15                                                                     *)
(***************************************************************************)
\* the step is a general check of u that passed, called with flag inc
PassedGeneral(u, inc) ==
    CheckedGeneral(u) /\ ev'.ret = "True" /\ ev'.flag = str(inc)

\* the request list of u and the ledger without the timestamps that are
\* 24 h old or older
PrunedRequests(u) == Filter(Session(u).requests_timestamps, now - DAY)
PrunedLedger == Filter(total_daily_requests_rl, now - DAY)

\* C15 as stated: a general check that passes with the increment flag true
\* appends exactly one timestamp equal to now to the user's request list and
\* to the global ledger and sets the last-request timestamp to now; one that
\* passes with the flag false leaves the contents of both lists and the
\* last-request timestamp as they were; in both cases the violation counter
\* is unchanged.
C15_PassAppendsNow ==
    [][\A u \in Users :
          /\ PassedGeneral(u, TRUE) =>
                /\ Session(u)'.requests_timestamps =
                      Append(Session(u).requests_timestamps, now)
                /\ total_daily_requests_rl' = Append(total_daily_requests_rl, now)
                /\ Session(u)'.last_request_timestamp = Some(now)
                /\ Session(u)'.violations = Session(u).violations
          /\ PassedGeneral(u, FALSE) =>
                /\ Session(u)'.requests_timestamps = Session(u).requests_timestamps
                /\ total_daily_requests_rl' = total_daily_requests_rl
                /\ Session(u)'.last_request_timestamp =
                      Session(u).last_request_timestamp
                /\ Session(u)'.violations = Session(u).violations]_vars

\* C15 amended: a general check of a non-trusted user that passes prunes the
\* request list and the ledger of the timestamps 24 h old or older; with the
\* flag true it then appends exactly one timestamp equal to now to each and
\* sets the last-request timestamp to now, with the flag false it appends
\* nothing and leaves the last-request timestamp; in both cases the
\* violation counter is unchanged, except that a call that finds an expired
\* block resets it to 0.
C15_PassCountsAfterPruning ==
    [][\A u \in Users :
          /\ (PassedGeneral(u, TRUE) /\ ~Trusted(u)) =>
                /\ Session(u)'.requests_timestamps = Append(PrunedRequests(u), now)
                /\ total_daily_requests_rl' = Append(PrunedLedger, now)
                /\ Session(u)'.last_request_timestamp = Some(now)
                /\ Session(u)'.violations =
                      IF ExpiredBlockFound(u) THEN 0 ELSE Session(u).violations
          /\ (PassedGeneral(u, FALSE) /\ ~Trusted(u)) =>
                /\ Session(u)'.requests_timestamps = PrunedRequests(u)
                /\ total_daily_requests_rl' = PrunedLedger
                /\ Session(u)'.last_request_timestamp =
                      Session(u).last_request_timestamp
                /\ Session(u)'.violations =
                      IF ExpiredBlockFound(u) THEN 0 ELSE Session(u).violations]_vars

\* a counted request has just passed at a time when the first requests have
\* left the 24 h window: the list ends with now and no longer starts at 0
C15_Witness ==
    /\ ev.op = "check_rate_limits" /\ ev.info = "general" /\ ev.ret = "True"
    /\ ev.flag = "True"
    /\ ~Trusted(ev.u)
    /\ now >= DAY
    /\ Session(ev.u).last_request_timestamp = Some(now)
    /\ Len(Session(ev.u).requests_timestamps) >= 2
    /\ Head(Session(ev.u).requests_timestamps) > 0
    /\ Session(ev.u).requests_timestamps[Len(Session(ev.u).requests_timestamps)] = now

(***************************************************************************)
(* C16                                                                     *)
(***************************************************************************)
\* the step is a check of category "rate" by a non-trusted user with no block
CheckedRate(u) ==
    /\ Checked(u) /\ ev'.info = "rate"
    /\ ~Trusted(u)
    /\ ~IsSome(Session(u).blocked_until_timestamp)

\* C16: a "rate" check of a non-trusted user with no block passes exactly
\* when the session holds no last-rate timestamp (no rate check of this
\* session has passed) or the rate cooldown has elapsed since it; passing
\* sets the last-rate timestamp to now and failing leaves it; pass or fail,
\* the request list, the global ledger, the last-request timestamp and the
\* violation counter stay as they were; a general check never changes the
\* last-rate timestamp.
C16_RateCheckHasOwnCooldown ==
    [][\A u \in Users :
          /\ CheckedRate(u) =>
                /\ ev'.ret = "True" <=> RateCooldownOver(u)
                /\ Session(u)'.last_rate_request_timestamp =
                      IF RateCooldownOver(u) THEN Some(now)
                      ELSE Session(u).last_rate_request_timestamp
                /\ Session(u)'.requests_timestamps = Session(u).requests_timestamps
                /\ total_daily_requests_rl' = total_daily_requests_rl
                /\ Session(u)'.last_request_timestamp =
                      Session(u).last_request_timestamp
                /\ Session(u)'.violations = Session(u).violations
          /\ CheckedGeneral(u) =>
                Session(u)'.last_rate_request_timestamp =
                   Session(u).last_rate_request_timestamp]_vars

\* a rate check has just been refused, inside the rate cooldown that an
\* earlier rate check started, for a user with counted general requests
C16_Witness ==
    /\ ev.op = "check_rate_limits" /\ ev.info = "rate" /\ ev.ret = "False"
    /\ ~Trusted(ev.u)
    /\ ~IsSome(Session(ev.u).blocked_until_timestamp)
    /\ ~RateCooldownOver(ev.u)
    /\ now > Get(Session(ev.u).last_rate_request_timestamp)
    /\ Len(Session(ev.u).requests_timestamps) > 0

(***************************************************************************)
(* C17                                                                     *)
(***************************************************************************)
\* the step runs a general check of u that records a violation: a direct
\* call, or a text sent in a chat mode, whose handler starts with the check
\* and returns when it fails
ViolationRecorded(u) ==
    /\ \/ CheckedGeneral(u)
       \/ /\ ev'.op = "message" /\ ev'.u = u /\ ~IsCommand(ev'.info)
          /\ Session(u).state \in {"MISTRAL_MODE", "GEMINI_MODE"}
    /\ RefusalKey(u, TRUE) \in CapKeys

\* the block, the mode and the chat contexts of a session
BlockModeContexts(s) ==
    [blocked_until_timestamp |-> s.blocked_until_timestamp,
     state |-> s.state,
     gemini_chat |-> s.gemini_chat,
     mistral_chat_history |-> s.mistral_chat_history]

\* C17: a violation that brings the counter to the threshold or above sets,
\* in the same call, blocked-until to now + block duration in the session,
\* writes a block record with that timestamp and the violation count to the
\* store, makes the mode NONE and discards both chat contexts; a violation
\* that leaves the counter below the threshold changes none of these.
C17_EscalationBlocksAndResets ==
    [][\A u \in Users :
          ViolationRecorded(u) =>
             /\ Session(u)'.violations >= LIMIT_VIOLATIONS_BEFORE_BLOCK =>
                   /\ BlockModeContexts(Session(u)') =
                         [blocked_until_timestamp |->
                             Some(now + USER_BLOCK_DURATION_HOURS * HOUR),
                          state |-> "NONE",
                          gemini_chat |-> FALSE,
                          mistral_chat_history |-> FALSE]
                   /\ StoredBlock(u)' =
                         Some([until |-> now + USER_BLOCK_DURATION_HOURS * HOUR,
                               violations |-> Session(u)'.violations])
             /\ (Session(u)'.violations < LIMIT_VIOLATIONS_BEFORE_BLOCK
                   /\ ~IsSome(Session(u).blocked_until_timestamp)) =>
                   /\ BlockModeContexts(Session(u)') = BlockModeContexts(Session(u))
                   /\ StoredBlock(u)' = StoredBlock(u)]_vars

\* a text sent in a chat mode has just taken the counter to the threshold:
\* the user is blocked, out of the mode and without the context
C17_Witness ==
    /\ ev.op = "message" /\ ev.info = "hello"
    /\ Session(ev.u).violations = LIMIT_VIOLATIONS_BEFORE_BLOCK
    /\ Session(ev.u).blocked_until_timestamp =
          Some(now + USER_BLOCK_DURATION_HOURS * HOUR)
    /\ IsSome(StoredBlock(ev.u))
    /\ Session(ev.u).state = "NONE"
    /\ IsSome(Session(ev.u).session_start_timestamp)
    /\ ~Session(ev.u).mistral_chat_history /\ ~Session(ev.u).gemini_chat

(***************************************************************************)
(* C18                                                                     *)
(***************************************************************************)
\* u carries a manual ban: the store holds a record with the sentinel and
\* the session is blocked with the sentinel as its counter
Banned(u) ==
    /\ IsSome(StoredBlock(u))
    /\ Get(StoredBlock(u)).violations = MANUAL_BAN
    /\ ~NotActivelyBlocked(u)
    /\ Session(u).violations = MANUAL_BAN

\* C18: after /ban of a user who is neither the owner nor trusted, the
\* store holds a block record with the sentinel -1 and the session is
\* blocked, in NONE and without chat contexts; no check_rate_limits,
\* is_user_blocked or get_user_data call and no other step removes the ban
\* but /unban and a trust grant (/addtrusted, a payment), and each of these
\* leaves no block in the session or in the store.
C18_BanStaysUntilLifted ==
    [][\A u \in Users :
          /\ (ev'.op = "ban" /\ ev'.u = u /\ ev'.ret = "success" /\ ~Trusted(u)) =>
                /\ Banned(u)'
                /\ Session(u)'.state = "NONE"
                /\ ~Session(u)'.gemini_chat
                /\ ~Session(u)'.mistral_chat_history
          /\ (Banned(u) /\ ~Banned(u)') =>
                /\ ev'.op \in {"unban", "addtrusted", "successful_payment"}
                /\ ev'.u = u
                /\ NoBlockLeft(u)]_vars

\* the owner has just banned a user who was talking in a chat mode
C18_Witness ==
    /\ ev.op = "ban" /\ ev.ret = "success"
    /\ ~Trusted(ev.u)
    /\ Banned(ev.u)
    /\ Session(ev.u).state = "NONE"
    /\ IsSome(Session(ev.u).session_start_timestamp)
    /\ Len(Session(ev.u).requests_timestamps) > 0

(***************************************************************************)
(* C19                                                                     *)
(***************************************************************************)
\* C19: once the payment hook has completed for user u, u is in the trusted
\* set and holds no block in the cached session or in the store, however the
\* steps of a check_rate_limits call of u that runs on another worker fall
\* between the steps of the hook.
C19_HookLeavesTrustedUnblocked ==
    \A u \in AdminTargets :
        payment_thread.pc = "done" => Trusted(u) /\ ~HoldsBlock(World, u)

(***************************************************************************)
(* C20                                                                     *)
(***************************************************************************)
\* the world a get_user_data call for u made now leaves
Fetched(u) == get_user_data(World, u, now)

\* C20: for a user who is trusted when get_user_data is called, the session
\* the call returns has no blocked-until timestamp and after the call the
\* store holds no active block record for that user, whether the call
\* builds the session or finds it in the registry.
C20_TrustedFetchHasNoBlock ==
    \A u \in Users :
        Trusted(u) =>
            /\ ~IsSome(Fetched(u).uds[u].blocked_until_timestamp)
            /\ LET record == get_blocked_user_info_db(Fetched(u), u)
               IN ~IsSome(record) \/ Get(record).until <= now

\* a fetch has just removed the block that the session of a trusted user in
\* the registry carried
C20_Witness ==
    /\ ev.op = "get_user_data" /\ ev.info = "unblocking"
    /\ ev.u # BOT_OWNER_USER_ID
    /\ Trusted(ev.u)
    /\ ev.u \in DOMAIN user_data_store
    /\ ~HoldsBlock(World, ev.u)

(***************************************************************************)
(* C21                                                                     *)
(***************************************************************************)
\* the step is an is_user_blocked call of user u
AskedBlocked(u) == ev'.op = "is_user_blocked" /\ ev'.u = u

\* blocked-until as is_user_blocked finds it: the field of the cached
\* session, or for a user the registry does not hold the time of the row of
\* the store
BlockedUntil(u) ==
    IF u \in DOMAIN user_data_store
    THEN user_data_store[u].blocked_until_timestamp
    ELSE IF IsSome(StoredBlock(u)) THEN Some(Get(StoredBlock(u)).until) ELSE None

\* the call left the session, the block record, the trusted list and the
\* ledger as they were
BlockedAnswerChangesNothing(u) ==
    /\ Session(u)' = Session(u)
    /\ StoredBlock(u)' = StoredBlock(u)
    /\ db_trusted_users' = db_trusted_users
    /\ total_daily_requests_rl' = total_daily_requests_rl

\* C21: for a non-trusted user is_user_blocked returns true exactly when
\* now < blocked-until, and then it sends the blocked notification and
\* changes no state; when now >= blocked-until it removes the block from the
\* session and the store, resets the violation counter to 0 and returns
\* false; with no block it returns false and changes nothing.
C21_IsUserBlockedContract ==
    [][\A u \in Users :
          (AskedBlocked(u) /\ ~Trusted(u)) =>
              /\ ev'.ret = "True" <=>
                    (IsSome(BlockedUntil(u)) /\ now < Get(BlockedUntil(u)))
              /\ ev'.ret = "True" =>
                    /\ ev'.info = "user_blocked"
                    /\ BlockedAnswerChangesNothing(u)
                    /\ db_user_settings' = db_user_settings
              /\ (IsSome(BlockedUntil(u)) /\ now >= Get(BlockedUntil(u))) =>
                    /\ ev'.ret = "False" /\ ev'.info = ""
                    /\ ~IsSome(Session(u)'.blocked_until_timestamp)
                    /\ ~IsSome(StoredBlock(u)')
                    /\ Session(u)'.violations = 0
              /\ ~IsSome(BlockedUntil(u)) =>
                    /\ ev'.ret = "False" /\ ev'.info = ""
                    /\ BlockedAnswerChangesNothing(u)]_vars

\* is_user_blocked has just found the escalation block of a cached session
\* expired: it answered false, and the counter the block had filled is 0
C21_Witness ==
    /\ ev.op = "is_user_blocked" /\ ev.ret = "False"
    /\ ev.log = "block expired"
    /\ ~Trusted(ev.u)
    /\ ev.u \in DOMAIN user_data_store
    /\ Len(user_data_store[ev.u].requests_timestamps) > 0
    /\ user_data_store[ev.u].violations = 0
    /\ ~IsSome(user_data_store[ev.u].blocked_until_timestamp)
    /\ ~IsSome(StoredBlock(ev.u))
    /\ now >= HOUR

(***************************************************************************)
(* C22                                                                     *)
(***************************************************************************)
\* the step is an owner command the owner sent without an identifier or with
\* a text that is no number
MalformedCommand ==
    /\ ev'.op = "owner_command"
    /\ ev'.flag \in {"", "abc"}

\* the step is a /ban aimed at the owner, who is the caller
BanOfOwner ==
    /\ ev'.op = "owner_command" /\ ev'.info = "/ban"
    /\ ev'.flag = "1"

\* the step is a /removetrusted aimed at the owner
RemoveTrustedOfOwner ==
    /\ ev'.op = "owner_command" /\ ev'.info = "/removetrusted"
    /\ ev'.flag = "1"

\* the step left every block record, the trusted list, the trusted set as
\* it is read and the session of every user but the owner as they were
AdminStateUntouched ==
    /\ db_blocked_users' = db_blocked_users
    /\ db_trusted_users' = db_trusted_users
    /\ \A u \in Users : Trusted(u)' = Trusted(u)
    /\ \A u \in Users \ {BOT_OWNER_USER_ID} :
          /\ (u \in DOMAIN user_data_store') = (u \in DOMAIN user_data_store)
          /\ u \in DOMAIN user_data_store =>
                user_data_store'[u] = user_data_store[u]

\* C22: a /ban, /unban, /addtrusted or /removetrusted command with a missing
\* or non-numeric identifier, a /ban aimed at the owner or the caller and a
\* /removetrusted aimed at the owner are each answered with an error report
\* and change no block record, no trusted-set entry and no other user's
\* session.
C22_InvalidAdminInputChangesNothing ==
    [][/\ MalformedCommand => (ev'.ret = "parse_error" /\ AdminStateUntouched)
       /\ BanOfOwner => (ev'.ret = "cannot_ban_owner" /\ AdminStateUntouched)
       /\ RemoveTrustedOfOwner => (ev'.ret = "is_owner" /\ AdminStateUntouched)]_vars

\* the owner has just sent /ban with a text that is no number while one
\* regular user is banned, one is trusted and one holds a session with a
\* recorded violation
C22_Witness ==
    /\ ev.op = "owner_command" /\ ev.info = "/ban" /\ ev.flag = "abc"
    /\ ev.ret = "parse_error"
    /\ \E u \in RegularUsers : IsSome(StoredBlock(u))
    /\ db_trusted_users # {}
    /\ \E u \in RegularUsers :
          u \in DOMAIN user_data_store /\ user_data_store[u].violations > 0

(***************************************************************************)
(* C24                                                                     *)
(***************************************************************************)
\* the step is a call for user u made while the database does not answer
FailedStoreCall(u) == ev'.log = "store error" /\ ev'.u = u

\* C24: when a store operation fails after startup the failure does not
\* reach the caller: get_user_data still returns a session, built with the
\* default settings and no block when the reads fail; check_rate_limits and
\* is_user_blocked still return a boolean; and a failed read of the trusted
\* list yields the empty set, so the set the core then caches holds the
\* owner and the configured list only.
C24_StoreFailureNotPropagated ==
    [][\A u \in Users :
          FailedStoreCall(u) =>
              /\ u \in DOMAIN user_data_store'
              /\ u \notin DOMAIN user_data_store =>
                    /\ user_data_store'[u].language = DEFAULT_LANGUAGE
                    /\ user_data_store'[u].gemini_model = DEFAULT_GEMINI_MODEL
                    /\ ~IsSome(user_data_store'[u].blocked_until_timestamp)
              /\ ev'.op \in {"check_rate_limits", "is_user_blocked"} =>
                    ev'.ret \in {"True", "False"}
              /\ ~IsSome(trusted_users_set_cache) =>
                    trusted_users_set_cache' =
                       Some(ENV_TRUSTED_USERS \cup {BOT_OWNER_USER_ID})
              /\ db_user_settings' = db_user_settings
              /\ db_blocked_users' = db_blocked_users
              /\ db_trusted_users' = db_trusted_users]_vars

\* a fetch has just failed to read the store for a user the registry did not
\* hold: the store holds the user's language, a ban and the user's trust,
\* and the session has the default language, no block, and the user is not
\* trusted
C24_Witness ==
    /\ ev.op = "get_user_data" /\ ev.log = "store error"
    /\ ev.u \in DOMAIN db_user_settings
    /\ db_user_settings[ev.u].language # DEFAULT_LANGUAGE
    /\ user_data_store[ev.u].language = DEFAULT_LANGUAGE
    /\ ev.u \in DOMAIN db_blocked_users
    /\ ~IsSome(user_data_store[ev.u].blocked_until_timestamp)
    /\ ev.u \in db_trusted_users
    /\ ~Trusted(ev.u)

(***************************************************************************)
(* C25                                                                     *)
(***************************************************************************)
\* the number of texts the check of the step sent to user u
SentByCheck(u) ==
    check_rate_limits(World, u, ev'.info, ev'.flag = "True", now).sent

\* C25 as stated: whenever check_rate_limits returns false, for any category
\* and any reason (active block, quota violation, escalation, cooldown,
\* rate-category cooldown), the engine has sent at least one notification to
\* that user during that call.
C25_RefusalIsNotified ==
    [][\A u \in Users :
          (Checked(u) /\ ev'.ret = "False") => SentByCheck(u) >= 1]_vars

(***************************************************************************)
(* C26                                                                     *)
(***************************************************************************)
\* the cached session of u carries a block an escalation set (a manual ban
\* carries the counter -1)
EscalationBlockInSession(u) ==
    /\ u \in DOMAIN user_data_store
    /\ IsSome(user_data_store[u].blocked_until_timestamp)
    /\ user_data_store[u].violations >= LIMIT_VIOLATIONS_BEFORE_BLOCK

\* C26 as stated: in every state another worker can see, a session whose
\* blocked-until was set by escalation comes with the block record of the
\* store, the mode Idle and no chat context.
C26_NoHalfAppliedBlock ==
    \A u \in Users :
        EscalationBlockInSession(u) =>
            /\ IsSome(StoredBlock(u))
            /\ Get(StoredBlock(u)).until =
                  Get(user_data_store[u].blocked_until_timestamp)
            /\ user_data_store[u].state = "NONE"
            /\ ~user_data_store[u].gemini_chat
            /\ ~user_data_store[u].mistral_chat_history


(***************************************************************************)
(* C30                                                                     *)
(***************************************************************************)
\* worker i went on from get_user_data with a session object that is not the
\* one the registry holds for its user
HoldsOtherSession(i) ==
    /\ workers[i].pc # "built"
    /\ IsSome(workers[i].obj)

\* C30 as stated: the registry never hands out two different session
\* objects for one user; every worker that got a session from get_user_data
\* works on the record the registry holds.
C30_OneSessionObjectPerUser ==
    \A i \in Workers : ~HoldsOtherSession(i)


(***************************************************************************)
(* C28                                                                     *)
(***************************************************************************)
\* the stamps of the requests the cached session of u was allowed
AllowedStamps(u) ==
    IF u \in DOMAIN user_data_store
    THEN user_data_store[u].requests_timestamps ELSE <<>>

\* the allowed requests of u with a stamp in the span of length d that ends at t
AllowedWithin(u, t, d) ==
    {k \in DOMAIN AllowedStamps(u) :
        AllowedStamps(u)[k] > t - d /\ AllowedStamps(u)[k] <= t}

\* the counted requests of u respect the caps and the cooldown
SessionWithinCaps(u) ==
    /\ \A t \in 0..MaxTime :
          /\ Cardinality(AllowedWithin(u, t, MINUTE)) <= MAX_REQUESTS_PER_MINUTE
          /\ Cardinality(AllowedWithin(u, t, DAY)) <= MAX_REQUESTS_PER_USER_PER_DAY
    /\ \A j, k \in DOMAIN AllowedStamps(u) :
          j < k => AllowedStamps(u)[k] - AllowedStamps(u)[j]
                      >= REQUEST_COOLDOWN_SECONDS

\* workers i and j were both allowed a counted request of the same user
BothAllowed(i, j) ==
    /\ i # j
    /\ workers[i].pc = "counted"
    /\ workers[j].pc = "counted"
    /\ workers[i].u = workers[j].u

\* C28 as stated: under every interleaving of the events of one non-trusted
\* user the allowed counted requests stay within the per-minute cap, the
\* per-user daily cap, and no two of them are closer than the cooldown.
C28_CapsHoldUnderInterleaving ==
    /\ \A u \in RegularUsers : SessionWithinCaps(u)
    /\ \A i, j \in Workers :
          BothAllowed(i, j) /\ workers[i].now >= workers[j].now =>
              workers[i].now - workers[j].now >= REQUEST_COOLDOWN_SECONDS


(***************************************************************************)
(* C27                                                                     *)
(***************************************************************************)
\* the checks of the workers that passed with the increment flag true and
\* whose stamp is not older than a day
PassedChecks == {i \in Workers : workers[i].pc = "counted"}

\* the entries of the global ledger that carry the stamp t
LedgerEntries(t) ==
    {k \in DOMAIN total_daily_requests_rl : total_daily_requests_rl[k] = t}

\* no worker is inside a check, and the workers serve different users
NoCheckInProgress ==
    /\ \A i \in Workers : workers[i].pc \notin InCheck
    /\ \A i, j \in Workers : i # j => workers[i].u # workers[j].u

\* C27 as stated: after concurrent general checks of different non-trusted
\* users have completed, the global ledger holds one timestamp for each
\* check that passed with the increment flag true.
C27_NoLostLedgerUpdate ==
    NoCheckInProgress =>
        \A t \in 0..MaxTimePool :
            Cardinality(LedgerEntries(t))
                >= Cardinality({i \in PassedChecks : workers[i].now = t})


(***************************************************************************)
(* C29                                                                     *)
(***************************************************************************)
\* the union the trusted set is built from: the owner, the configured list
\* and the trusted list of the store
TrustedSources ==
    {BOT_OWNER_USER_ID} \cup ENV_TRUSTED_USERS \cup db_trusted_users

\* no worker is between the query of the trusted list and the cache store
NoRebuildInProgress == \A i \in Workers : workers[i].pc # "set_built"

\* C29 as stated: while no add, remove or rebuild is in progress, membership
\* in the trusted set as the core reads it equals membership in the union of
\* the owner, the configured list and the durable trusted list.
C29_TrustedSetIsTheUnion ==
    NoRebuildInProgress => \A u \in Users : Trusted(u) <=> u \in TrustedSources


(***************************************************************************)
(* C23                                                                     *)
(***************************************************************************)
\* the store holds a settings row of u with the language and the model of
\* the cached session
RowMatchesSession(u) ==
    /\ u \in DOMAIN db_user_settings
    /\ db_user_settings[u].language = user_data_store[u].language
    /\ db_user_settings[u].gemini_model = user_data_store[u].gemini_model

\* no worker is between the reads of get_user_data and its store
NoFetchInProgress == \A i \in Workers : workers[i].pc # "built"

\* C23 as stated: whenever no setter or fetch is in progress, every user of
\* the registry has a settings row in the store whose language and model
\* equal those of the cached session.
C23_SettingsWrittenThrough ==
    NoFetchInProgress => \A u \in DOMAIN user_data_store : RowMatchesSession(u)


(***************************************************************************)
(* C36                                                                     *)
(***************************************************************************)
\* the cached sessions that carry a blocked-until timestamp
BlockedSessions ==
    {u \in DOMAIN user_data_store :
        IsSome(user_data_store[u].blocked_until_timestamp)}

UnblockedSessions == DOMAIN user_data_store \ BlockedSessions

\* C37 as stated: a session without a blocked-until timestamp has a
\* violation counter v with 0 <= v < LIMIT_VIOLATIONS_BEFORE_BLOCK.
C37_UnblockedCounterBelowThreshold ==
    \A u \in UnblockedSessions :
        /\ user_data_store[u].violations >= 0
        /\ user_data_store[u].violations < LIMIT_VIOLATIONS_BEFORE_BLOCK


(***************************************************************************)
(* C32                                                                     *)
(***************************************************************************)
\* the block of the cached session of u and the block record of the store
\* say the same: both absent, or the same timestamp and violation count
SessionBlockMatchesStore(u) ==
    IF IsSome(user_data_store[u].blocked_until_timestamp)
    THEN /\ IsSome(StoredBlock(u))
         /\ Get(StoredBlock(u)).until =
               Get(user_data_store[u].blocked_until_timestamp)
         /\ Get(StoredBlock(u)).violations = user_data_store[u].violations
    ELSE ~IsSome(StoredBlock(u))

\* C32 as stated: between operations, every cached session has a
\* blocked-until timestamp exactly when the store holds a block record of
\* the user, and then with the same timestamp and violation count.
C32_SessionBlockEqualsStore ==
    \A u \in DOMAIN user_data_store : SessionBlockMatchesStore(u)


(***************************************************************************)
(* C38                                                                     *)
(***************************************************************************)
\* session s holds no scratch data of any mode
NoScratchData(s) ==
    /\ ~s.flux_data
    /\ ~IsSome(s.custom_donation_prompt_msg_id)
    /\ s.processed_media_group_ids = {}

\* C38 as stated: a session whose mode is NONE holds no pending image
\* prompt, no id of a custom-amount prompt message and no processed
\* media-group identifiers.
C38_IdleHoldsNoScratch ==
    \A u \in DOMAIN user_data_store :
        user_data_store[u].state = "NONE" => NoScratchData(user_data_store[u])


(***************************************************************************)
(* C35                                                                     *)
(***************************************************************************)
\* the step takes u into a mode other than NONE that u was not in
EntersMode(u) ==
    /\ u \in DOMAIN user_data_store'
    /\ user_data_store'[u].state # "NONE"
    /\ user_data_store'[u].state # Session(u).state

\* session s holds no scratch data but that of its own mode
OnlyOwnScratch(s) ==
    /\ s.state \notin {"FLUX_PROMPT", "FLUX_DIMENSIONS"} => ~s.flux_data
    /\ s.state # "DONATE_CUSTOM_AMOUNT_INPUT" =>
          ~IsSome(s.custom_donation_prompt_msg_id)
    /\ s.state # "WAITING_FOR_FORWARD" => s.processed_media_group_ids = {}

\* C35 as stated: whenever a user enters a mode other than NONE, the
\* session afterwards holds no scratch data of any other mode.
C35_EntryClearsForeignScratch ==
    [][\A u \in AdminTargets :
          EntersMode(u) => OnlyOwnScratch(user_data_store'[u])]_vars


(***************************************************************************)
(* C34                                                                     *)
(***************************************************************************)
\* the modes a blocked user is kept out of
GatedModes == {"GEMINI_MODE", "MISTRAL_MODE", "FLUX_PROMPT", "FLUX_DIMENSIONS"}

\* u is not trusted and the block of its session is running
ActivelyBlocked(u) == ~Trusted(u) /\ ~NotActivelyBlocked(u)

\* the step is a message of u that is a recognized command a blocked user
\* is not allowed
ForbiddenCommand(u) ==
    /\ ev'.op = "message"
    /\ ev'.u = u
    /\ ev'.info \in RecognizedCommands \ ALLOWED_COMMANDS_WHEN_BLOCKED

\* what a message leaves when no command handler runs for it: the fetched
\* session, taken out of its mode when the handler of the mode got the
\* message
WithoutDispatch(u, m) ==
    Bind(get_user_data(World, u, now), LAMBDA w :
         IF first_handler(m, w.uds[u].state).kind = "state"
         THEN set_state(clear_mode_scratch(w, u, w.uds[u].state), u, "NONE")
         ELSE w)

\* C34: with events processed one after the other, a non-trusted user whose
\* block is running is in none of the chat and image modes, and a command
\* outside the allowed-when-blocked list sent by that user reaches no
\* command handler: it leaves what the message leaves without a dispatch.
C34_BlockedUserIsGated ==
    /\ [](\A u \in AdminTargets :
             ActivelyBlocked(u) => Session(u).state \notin GatedModes)
    /\ [][\A u \in AdminTargets :
             ActivelyBlocked(u) /\ ForbiddenCommand(u) =>
                /\ user_data_store' = WithoutDispatch(u, ev'.info).uds
                /\ UNCHANGED <<db_user_settings, db_blocked_users,
                               db_trusted_users, total_daily_requests_rl>>]_vars

\* a banned user has sent /mistral and is in no mode
C34_Witness ==
    /\ ev.op = "message"
    /\ ev.info = "/mistral"
    /\ ActivelyBlocked(2)
    /\ Session(2).violations = MANUAL_BAN
    /\ ~IsSome(Session(2).custom_donation_prompt_msg_id)
    /\ Session(2).state = "NONE"


(***************************************************************************)
(* C31                                                                     *)
(***************************************************************************)
ChatModes == {"MISTRAL_MODE", "GEMINI_MODE"}

\* the command that enters chat mode s
ModeCommand(s) == IF s = "MISTRAL_MODE" THEN "/mistral" ELSE "/gemini"

\* the chat session of non-trusted u is older than the session lifetime
SessionExpired(u) ==
    /\ ~Trusted(u)
    /\ Session(u).state \in ChatModes
    /\ IsSome(Session(u).session_start_timestamp)
    /\ now - Get(Session(u).session_start_timestamp) > SESSION_LIFETIME

\* the step is chat input of u, or the command of the mode u is in, that
\* is handled with every call succeeding and passes the rate check
ChatInputHandled(u) ==
    /\ ev'.op = "message"
    /\ ev'.u = u
    /\ ev'.ret = "ok"
    /\ ev'.info \in {"hello", ModeCommand(Session(u).state)}
    /\ check_rate_limits(World, u, "general", FALSE, now).ret

\* C31 as stated: input sent in a chat mode more than the session lifetime
\* after the session start gets a fresh context and a new session-start
\* timestamp, and the user is still in that chat mode afterwards.
C31_ExpiryKeepsChatMode ==
    [][\A u \in AdminTargets :
          SessionExpired(u) /\ ChatInputHandled(u) =>
             /\ user_data_store'[u].session_start_timestamp = Some(now)
             /\ user_data_store'[u].state = Session(u).state]_vars


(***************************************************************************)
(* C33                                                                     *)
(***************************************************************************)
\* the step is a press of a language or model button
SetterStep == ev'.op \in {"set_language", "set_model"}

\* C33 as stated: once the store holds a settings row of a user, only the
\* language and model setters change it; a fetch of the user's session does
\* not, also when its read of the row fails and the writes after it succeed.
C33_OnlySettersChangeTheRow ==
    [][\A u \in DOMAIN db_user_settings :
          ~SetterStep =>
             /\ u \in DOMAIN db_user_settings'
             /\ db_user_settings'[u] = db_user_settings[u]]_vars


(***************************************************************************)
(* C39                                                                     *)
(***************************************************************************)
\* how many timestamps of s are less than d old
Younger(s, d) == Cardinality({k \in DOMAIN s : now - s[k] < d})

\* the test that refuses a general check of u when a timestamp counts only
\* while it is less than the window old and a cooldown ends when the time
\* since the last request equals it; "" when no test refuses
StrictRefusal(u) ==
    IF Younger(total_daily_requests_rl, DAY) >= MAX_REQUESTS_PER_DAY
    THEN "rate_limit_total_daily"
    ELSE IF Younger(Session(u).requests_timestamps, DAY)
               >= MAX_REQUESTS_PER_USER_PER_DAY
    THEN "rate_limit_daily"
    ELSE IF Younger(Session(u).requests_timestamps, MINUTE)
               >= MAX_REQUESTS_PER_MINUTE
    THEN "rate_limit_minute"
    ELSE IF /\ IsSome(Session(u).last_request_timestamp)
            /\ now - Get(Session(u).last_request_timestamp)
                  < REQUEST_COOLDOWN_SECONDS
    THEN "rate_limit_cooldown"
    ELSE ""

\* the block of u ends at this very moment or ended before
BlockOver(u) ==
    /\ IsSome(Session(u).blocked_until_timestamp)
    /\ now >= Get(Session(u).blocked_until_timestamp)

\* C39: the windows are strict.  A timestamp exactly 24 h old counts toward
\* no daily cap and one exactly a minute old not toward the per-minute cap;
\* a general request exactly the cooldown after the last allowed one passes
\* the cooldown, a rate check exactly a minute after the last passed one
\* passes, and at now = blocked-until the block is treated as expired.
C39_WindowBoundariesAreStrict ==
    [][\A u \in Users :
          ~Trusted(u) =>
             /\ (Checked(u) \/ AskedBlocked(u)) /\ BlockOver(u) =>
                   ev'.log = "block expired"
             /\ CheckedGeneral(u) /\ NotActivelyBlocked(u) =>
                   /\ RefusalKey(u, ev'.flag = "True") = StrictRefusal(u)
                   /\ ev'.ret = "True" <=> StrictRefusal(u) = ""
             /\ Checked(u) /\ ev'.info = "rate" /\ NotActivelyBlocked(u) =>
                   (ev'.ret = "True" <=>
                       \/ ~IsSome(Session(u).last_rate_request_timestamp)
                       \/ now - Get(Session(u).last_rate_request_timestamp)
                             >= RATE_COOLDOWN)]_vars

\* a general request was allowed exactly the cooldown after the one before
C39_Witness ==
    /\ ev.op = "check_rate_limits" /\ ev.info = "general"
    /\ ev.ret = "True" /\ ev.flag = "True"
    /\ Len(AllowedStamps(ev.u)) >= 2
    /\ AllowedStamps(ev.u)[Len(AllowedStamps(ev.u))] = now
    /\ AllowedStamps(ev.u)[Len(AllowedStamps(ev.u)) - 1]
          = now - REQUEST_COOLDOWN_SECONDS


(***************************************************************************)
(* C40: the forwarded-message mode and media groups.  An album reaches the *)
(* bot as one message per item, all with the same media_group_id; telebot  *)
(* tests the filter of the handler for each of them and hands each to a    *)
(* worker of the pool.  A worker stops where the interpreter can switch to *)
(* another one: between the membership test of line 296 and the add of     *)
(* line 298, and at the sends of check_rate_limits and of the answer.      *)
(***************************************************************************)
\* message.media_group_id: None for a message that belongs to no album
MediaGroups == {None, Some("album1"), Some("album2")}
\* the places of a worker whose forwarded message has been rate-checked
ForwardChecked == {"checked", "answered", "refused"}
\* the places of a worker that has returned from the handler
ForwardReturned == {"idle", "ignored", "answered", "refused"}
\* no worker has been handed a forwarded message yet
AlbumNotSent == \A i \in Workers : workers[i].pc = "idle"

\* the filter of lines 260-263, tested by the dispatching thread: a forwarded
\* message with media_group_id g of a user in WAITING_FOR_FORWARD is handed
\* to worker i
ForwardDispatch(i, u, g) ==
    /\ workers[i].pc \in ForwardReturned
    /\ workers[i].calls < MaxCallsPool
    /\ LET w == get_user_data(World, u, now) IN
       /\ w.uds[u].state = "WAITING_FOR_FORWARD"
       /\ CommitShared(w)
    /\ workers' = [workers EXCEPT ![i] =
                      [NextCall(i, "queued", u) EXCEPT !.local = g]]
    /\ ev' = Event("forward_dispatch", u, "", "")
    /\ UNCHANGED <<now, payment_thread, check_thread>>

\* lines 264-297: the fetch of the session and, for a message of an album,
\* the test `media_group_id in processed_media_group_ids` and its return
ForwardTest(i) ==
    /\ workers[i].pc = "queued"
    /\ LET u == workers[i].u
           g == workers[i].local
           w == get_user_data(World, u, now)
       IN /\ CommitShared(w)
          /\ workers' = [workers EXCEPT ![i].pc =
                IF ~IsSome(g) THEN "accepted"
                ELSE IF Get(g) \in w.uds[u].processed_media_group_ids
                     THEN "ignored" ELSE "tested"]
          /\ ev' = Event("forward_test", u, "", "")
    /\ UNCHANGED <<now, payment_thread, check_thread>>

\* line 298: processed_media_group_ids.add(message.media_group_id)
ForwardAdd(i) ==
    /\ workers[i].pc = "tested"
    /\ LET u == workers[i].u IN
       /\ CommitShared([World EXCEPT !.uds[u].processed_media_group_ids =
                                        @ \cup {Get(workers[i].local)}])
       /\ ev' = Event("forward_add", u, "", "")
    /\ workers' = [workers EXCEPT ![i].pc = "accepted"]
    /\ UNCHANGED <<now, payment_thread, check_thread>>

\* lines 300-321: check_rate_limits(user_id, "getid_forward_action") for the
\* forwarded message, and the leaving of the mode when it refuses
ForwardCheck(i) ==
    /\ workers[i].pc = "accepted"
    /\ LET u == workers[i].u
           r == check_rate_limits(World, u, "getid_forward_action", TRUE, now)
       IN /\ CommitShared(IF r.ret THEN r.w ELSE leave_forward_mode(r.w, u))
          /\ workers' = [workers EXCEPT ![i].pc =
                            IF r.ret THEN "checked" ELSE "refused"]
          /\ ev' = Event("forward_check", u, "", str(r.ret))
    /\ UNCHANGED <<now, payment_thread, check_thread>>

\* lines 323-337: the answer has been sent; state = NONE, the set is cleared
ForwardAnswer(i) ==
    /\ workers[i].pc = "checked"
    /\ CommitShared(leave_forward_mode(World, workers[i].u))
    /\ workers' = [workers EXCEPT ![i].pc = "answered"]
    /\ ev' = Event("forward_answer", workers[i].u, "", "")
    /\ UNCHANGED <<now, payment_thread, check_thread>>

\* The user presses the "forward" button of /getid and then forwards
\* messages, which the pool handles.
NextForward ==
    \/ Tick(MaxTimeSM)
    \/ \E u \in AdminTargets : \E out \in ButtonOutcomes("getid_forward") :
          AlbumNotSent /\ ReceiveCallback(u, "getid_forward", out)
    \/ \E i \in Workers, u \in AdminTargets, g \in MediaGroups :
          ForwardDispatch(i, u, g)
    \/ \E i \in Workers : ForwardTest(i)
    \/ \E i \in Workers : ForwardAdd(i)
    \/ \E i \in Workers : ForwardCheck(i)
    \/ \E i \in Workers : ForwardAnswer(i)

SpecForward == Init /\ [][NextForward]_vars

\* C40: of the forwarded messages that carry the same media_group_id and
\* were handed to the handler while the user was in WAITING_FOR_FORWARD, at
\* most one is rate-checked; no two workers hold rate-checked messages of
\* the same album of the same user.
C40_AlbumCheckedOnce ==
    \A i, j \in Workers :
       /\ i # j
       /\ workers[i].pc \in ForwardChecked
       /\ workers[j].pc \in ForwardChecked
       /\ workers[i].u = workers[j].u
       /\ IsSome(workers[i].local)
       => workers[i].local # workers[j].local

====
